---- MODULE Spec2Model ----
(***************************************************************************)
(* The cropai dashboard: the Zustand store (store/dashboardStore.ts), the  *)
(* gateway (lib/api/client.ts), the response cache (lib/api/cache.ts) and  *)
(* the components that drive them, as a state machine of the browser's     *)
(* event loop.  One action is one macrotask (a user event, a timer, a      *)
(* network response, a React effect); the continuations a task leaves      *)
(* behind an `await` run in the microtask checkpoint that follows it       *)
(* (action Flush) before any other task.                                   *)
(***************************************************************************)
EXTENDS Integers, Sequences, FiniteSets, TLC

\* ------------------------------------------------------------------ bounds
\* User inputs (dropdowns, search, layer buttons, retry, dismiss, reload) and
\* cache expiries in one run; everything else follows from them.
MaxEvents == 2

\* The last reading of Date.now() in a run of the cache on its own.
MaxClock == 4

\* The fetchAPI calls in a run of the gateway on its own.
MaxCalls == 2

\* The items localStorage has room for.
Quota == 2

\* ------------------------------------------------------- backend contents
None == "none"
Null == 0
NoErr == "none"
Err == "error"

\* The messages of the foreground loads' catch blocks; a message stands for
\* whatever error.message the load's catch stored.
ErrFarms == "Failed to load farms"
ErrCrops == "Failed to load crops"
ErrFields == "Failed to load field boundaries"

\* 'farm-1' and 'farm-2'; "f1" stands for the id 'farm-1'.
FarmIds == {"f1", "f2"}
CropIds == {"c1", "c2"}
FieldIds == {"A", "B", "C"}

\* farm.location, in km of arc along one meridian (all points of the model
\* share their longitude).
FarmPos(f) == IF f = "f1" THEN 100 ELSE 160

\* farm.defaultCropId: farm-1 has one, farm-2 has none.
DefaultCropId(f) == IF f = "f1" THEN "c1" ELSE None

\* The orders in which GET /farms may list the farms.
FarmLists == {<<"f1", "f2">>, <<"f2", "f1">>}

\* GET /crops.
CropList == <<"c1", "c2">>

\* GET /fields?farm_id=&crop_id=: the boundary list of a (farm, crop) pair.
FieldsOf(farm, crop) ==
  IF farm = "f1" /\ crop = "c1" THEN <<"A", "B">>
  ELSE IF farm = "f2" /\ crop = "c2" THEN <<"C">>
  ELSE <<>>

\* Points a location search is made at (km along the meridian): at farm f1,
\* 20 km from it, 30 km from both farms, 25 km from f2, and exactly 50 km
\* from f2.
Queries == {100, 120, 130, 185, 210}

Kinds == {"farms", "crops", "fields", "kpi", "soil", "yield", "carbon",
          "ndviT", "ndvi", "stress"}
DataKinds == {"soil", "yield", "carbon"}
Layers == {"boundaries", "ndvi", "stress"}

\* ------------------------------------------------------------------ state
VARIABLES
  selectedFarm, selectedCrop, filters,
  farms, crops, fieldBoundaries, kpiSummary,
  ndviGrids, stressIndices, soilMoisture, yieldPrediction, carbonMetrics,
  activeMapLayer, isLoading, isLoadingNDVI, isLoadingStress, error,
  locationInput, mapCenter, searchResult,
  cache,      \* APICache: endpoint -> stored envelope
  reqs,       \* network calls in flight
  issued,     \* network calls made so far, per kind
  timers,     \* setTimeout callbacks pending, in the order they were set
  micro,      \* continuations waiting for the microtask checkpoint
  mounted, mapLoaded, effectDue,
  boundariesLayer, \* the map's 'field-boundaries-layer'
  events,     \* user inputs so far
  now,          \* Date.now()
  localStorage, \* the cropai_cache_ items: endpoint -> CacheEntry
  lastSet,      \* per endpoint, the arguments and time of the latest set
                \* that no clear has followed
  got,          \* what the latest APICache.get returned, and when
  calls         \* the fetchAPI calls made on the gateway on its own, in order

storeVars == <<selectedFarm, selectedCrop, filters, farms, crops, fieldBoundaries,
          kpiSummary, ndviGrids, stressIndices, soilMoisture, yieldPrediction,
          carbonMetrics, activeMapLayer, isLoading, isLoadingNDVI,
          isLoadingStress, error, locationInput, mapCenter, searchResult,
          cache, reqs, issued, timers, micro, mounted, mapLoaded, effectDue,
          boundariesLayer, events>>

cacheVars == <<now, localStorage, lastSet, got>>

gatewayVars == <<calls>>

vars == <<storeVars, cacheVars, gatewayVars>>

\* The whole state as one record, so that handlers compose as the calls do.
St ==
  [selectedFarm |-> selectedFarm, selectedCrop |-> selectedCrop,
   filters |-> filters, farms |-> farms, crops |-> crops,
   fieldBoundaries |-> fieldBoundaries, kpiSummary |-> kpiSummary,
   ndviGrids |-> ndviGrids, stressIndices |-> stressIndices,
   soilMoisture |-> soilMoisture, yieldPrediction |-> yieldPrediction,
   carbonMetrics |-> carbonMetrics, activeMapLayer |-> activeMapLayer,
   isLoading |-> isLoading, isLoadingNDVI |-> isLoadingNDVI,
   isLoadingStress |-> isLoadingStress, error |-> error,
   locationInput |-> locationInput, mapCenter |-> mapCenter,
   searchResult |-> searchResult, cache |-> cache, reqs |-> reqs,
   issued |-> issued, timers |-> timers, micro |-> micro,
   mounted |-> mounted, mapLoaded |-> mapLoaded, effectDue |-> effectDue,
   boundariesLayer |-> boundariesLayer, events |-> events]

Apply(s) ==
  /\ selectedFarm' = s.selectedFarm
  /\ selectedCrop' = s.selectedCrop
  /\ filters' = s.filters
  /\ farms' = s.farms
  /\ crops' = s.crops
  /\ fieldBoundaries' = s.fieldBoundaries
  /\ kpiSummary' = s.kpiSummary
  /\ ndviGrids' = s.ndviGrids
  /\ stressIndices' = s.stressIndices
  /\ soilMoisture' = s.soilMoisture
  /\ yieldPrediction' = s.yieldPrediction
  /\ carbonMetrics' = s.carbonMetrics
  /\ activeMapLayer' = s.activeMapLayer
  /\ isLoading' = s.isLoading
  /\ isLoadingNDVI' = s.isLoadingNDVI
  /\ isLoadingStress' = s.isLoadingStress
  /\ error' = s.error
  /\ locationInput' = s.locationInput
  /\ mapCenter' = s.mapCenter
  /\ searchResult' = s.searchResult
  /\ cache' = s.cache
  /\ reqs' = s.reqs
  /\ issued' = s.issued
  /\ timers' = s.timers
  /\ micro' = s.micro
  /\ mounted' = s.mounted
  /\ mapLoaded' = s.mapLoaded
  /\ effectDue' = s.effectDue
  /\ boundariesLayer' = s.boundariesLayer
  /\ events' = s.events
  /\ UNCHANGED <<cacheVars, gatewayVars>>

\* new Map()
EmptyMap == <<>>

\* new Map(m).set(k, v)
MapSet(m, k, v) == [x \in (DOMAIN m) \cup {k} |-> IF x = k THEN v ELSE m[x]]

NoSearch == [status |-> "null", distance |-> -1]

\* map.getLayer('field-boundaries-layer') finds nothing.
NoLayer == [features |-> <<>>, visibility |-> "absent"]

InitState ==
  [selectedFarm |-> None, selectedCrop |-> None,
   filters |-> [farmId |-> None, cropId |-> None],
   farms |-> <<>>, crops |-> <<>>, fieldBoundaries |-> <<>>,
   kpiSummary |-> Null,
   ndviGrids |-> EmptyMap, stressIndices |-> EmptyMap,
   soilMoisture |-> EmptyMap, yieldPrediction |-> EmptyMap,
   carbonMetrics |-> EmptyMap,
   activeMapLayer |-> "boundaries",
   isLoading |-> FALSE, isLoadingNDVI |-> FALSE, isLoadingStress |-> FALSE,
   error |-> NoErr, locationInput |-> Null, mapCenter |-> Null,
   searchResult |-> NoSearch,
   cache |-> EmptyMap, reqs |-> {}, issued |-> [k \in Kinds |-> 0],
   timers |-> <<>>, micro |-> <<>>,
   mounted |-> FALSE, mapLoaded |-> FALSE, effectDue |-> FALSE,
   boundariesLayer |-> NoLayer, events |-> 0]

\* ---------------------------------------------------------------- gateway
\* A response envelope {data, status}; NoEnv where a call was rejected.
Envelope(status, data) == [status |-> status, data |-> data]
NoEnv == [status |-> "none", data |-> Null]

\* The endpoint string of a call, which is also its cache key: the kind of
\* endpoint with its path or query arguments.
Endpoint(kind, a, b) == <<kind, a, b>>

\* APICache.get(endpoint) on an entry that has not expired.
CacheHas(s, kind, a, b) == Endpoint(kind, a, b) \in DOMAIN s.cache
CacheGet(s, kind, a, b) == s.cache[Endpoint(kind, a, b)]

\* APICache.set(endpoint, data)
CacheSet(s, kind, a, b, env) ==
  [s EXCEPT !.cache = MapSet(@, Endpoint(kind, a, b), env)]

\* A continuation queued for the microtask checkpoint.
Cont(t, kind, a, b, env) ==
  [t |-> t, kind |-> kind, a |-> a, b |-> b, env |-> env]

\* fetchAPI as it would be without the cache check: every call goes to the
\* network.
FetchAPIAlwaysFetchesMutant(s, kind, a, b) ==
  [s EXCEPT
     !.issued[kind] = @ + 1,
     !.reqs = @ \cup {[kind |-> kind, n |-> s.issued[kind] + 1,
                       a |-> a, b |-> b,
                       sel |-> <<s.selectedFarm, s.selectedCrop>>]}]

\* apiClient's fetchAPI for a GET with useCache = true, up to its first
\* suspension: a cached envelope is returned at once (the caller resumes in
\* the microtask checkpoint), otherwise one network call is started.
FetchAPI(s, kind, a, b) ==
  IF CacheHas(s, kind, a, b)
    THEN [s EXCEPT !.micro =
            Append(@, Cont("settled", kind, a, b, CacheGet(s, kind, a, b)))]
    ELSE [s EXCEPT
            !.issued[kind] = @ + 1,
            !.reqs = @ \cup {[kind |-> kind, n |-> s.issued[kind] + 1,
                              a |-> a, b |-> b,
                              sel |-> <<s.selectedFarm, s.selectedCrop>>]}]

\* ------------------------------------------------------ store: the loads
\* loadFieldBoundaries, to its await.
LoadFieldBoundaries(s) ==
  IF s.selectedFarm = None \/ s.selectedCrop = None
    THEN [s EXCEPT !.fieldBoundaries = <<>>, !.effectDue = TRUE]
    ELSE FetchAPI([s EXCEPT !.isLoading = TRUE, !.error = NoErr],
                  "fields", s.selectedFarm, s.selectedCrop)

\* loadKPISummary, to its first await (the dynamic import); the captured
\* state gives the continuation its filters.
LoadKPISummary(s) ==
  IF s.selectedFarm = None \/ s.selectedCrop = None
    THEN [s EXCEPT !.kpiSummary = Null]
    ELSE [s EXCEPT !.micro =
            Append(@, Cont("kpiImport", "kpi", s.filters.farmId,
                           s.filters.cropId, NoEnv))]

\* loadKPISummary after the import: the cached value is published, then the
\* fresh value is asked for.
KPIAfterImport(s, farmId, cropId) ==
  LET s1 == IF CacheHas(s, "kpi", farmId, cropId)
               /\ CacheGet(s, "kpi", farmId, cropId).status = "success"
              THEN [s EXCEPT !.kpiSummary =
                      CacheGet(s, "kpi", farmId, cropId).data]
              ELSE s
  IN FetchAPI(s1, "kpi", farmId, cropId)

\* The per-field map of a dataset kind.
MapOf(s, kind) ==
  CASE kind = "soil" -> s.soilMoisture
    [] kind = "yield" -> s.yieldPrediction
    [] kind = "carbon" -> s.carbonMetrics
    [] kind = "ndvi" -> s.ndviGrids
    [] kind = "stress" -> s.stressIndices

\* Publish as it would be if an entry already present were kept.
PublishFirstOnlyMutant(s, kind, fieldId, data) ==
  IF fieldId \in DOMAIN MapOf(s, kind) THEN s
  ELSE CASE kind = "soil" -> [s EXCEPT !.soilMoisture = MapSet(@, fieldId, data)]
         [] kind = "yield" -> [s EXCEPT !.yieldPrediction = MapSet(@, fieldId, data)]
         [] kind = "carbon" -> [s EXCEPT !.carbonMetrics = MapSet(@, fieldId, data)]
         [] kind = "ndvi" -> [s EXCEPT !.ndviGrids = MapSet(@, fieldId, data),
                                       !.effectDue = TRUE]
         [] kind = "stress" -> [s EXCEPT !.stressIndices = MapSet(@, fieldId, data),
                                         !.effectDue = TRUE]

\* set({ <map>: new Map(old).set(fieldId, data) })
Publish(s, kind, fieldId, data) ==
  CASE kind = "soil" -> [s EXCEPT !.soilMoisture = MapSet(@, fieldId, data)]
    [] kind = "yield" -> [s EXCEPT !.yieldPrediction = MapSet(@, fieldId, data)]
    [] kind = "carbon" -> [s EXCEPT !.carbonMetrics = MapSet(@, fieldId, data)]
    [] kind = "ndvi" -> [s EXCEPT !.ndviGrids = MapSet(@, fieldId, data),
                                  !.effectDue = TRUE]
    [] kind = "stress" -> [s EXCEPT !.stressIndices = MapSet(@, fieldId, data),
                                    !.effectDue = TRUE]

\* loadSoilMoisture / loadYieldPrediction / loadCarbonMetrics, to the await
\* of the import.  The location argument is the first field's centre, which
\* the field id determines, so the endpoint is named by kind and field.
LoadPerField(s, kind, fieldId) ==
  [s EXCEPT !.micro = Append(@, Cont("dataImport", kind, fieldId, None, NoEnv))]

LoadSoilMoisture(s, fieldId) == LoadPerField(s, "soil", fieldId)
LoadYieldPrediction(s, fieldId) == LoadPerField(s, "yield", fieldId)
LoadCarbonMetrics(s, fieldId) == LoadPerField(s, "carbon", fieldId)

\* ... after the import: optimistic display from the cache, then the
\* background fetch.
PerFieldAfterImport(s, kind, fieldId) ==
  LET s1 == IF CacheHas(s, kind, fieldId, None)
               /\ CacheGet(s, kind, fieldId, None).status = "success"
              THEN Publish(s, kind, fieldId, CacheGet(s, kind, fieldId, None).data)
              ELSE s
  IN FetchAPI(s1, kind, fieldId, None)

\* loadNDVIGrid as it would be without the isLoadingNDVI test.
LoadNDVIGridNoFlagMutant(s, fieldId) ==
  IF fieldId \in DOMAIN s.ndviGrids
    THEN s
    ELSE FetchAPI([s EXCEPT !.isLoadingNDVI = TRUE], "ndviT", fieldId, None)

\* loadNDVIGrid, to its await: getNDVIGrid first awaits the timeline.
LoadNDVIGrid(s, fieldId) ==
  IF s.isLoadingNDVI \/ fieldId \in DOMAIN s.ndviGrids
    THEN s
    ELSE FetchAPI([s EXCEPT !.isLoadingNDVI = TRUE], "ndviT", fieldId, None)

\* loadStressIndex, to its await.
LoadStressIndex(s, fieldId) ==
  IF s.isLoadingStress \/ fieldId \in DOMAIN s.stressIndices
    THEN s
    ELSE FetchAPI([s EXCEPT !.isLoadingStress = TRUE], "stress", fieldId, None)

\* -------------------------------------------------- store: the selection
\* setSelectedFarm
SetSelectedFarm(s, farm) ==
  LET s1 == [s EXCEPT
               !.selectedFarm = farm,
               !.filters.farmId = farm,
               !.activeMapLayer = "boundaries",
               !.ndviGrids = EmptyMap,
               !.stressIndices = EmptyMap,
               !.kpiSummary = Null,
               !.locationInput = IF farm # None THEN FarmPos(farm) ELSE Null,
               !.effectDue = TRUE]
  IN IF farm # None /\ s1.selectedCrop # None
       THEN LoadKPISummary(LoadFieldBoundaries(s1))
       ELSE s1

\* setSelectedCrop
SetSelectedCrop(s, crop) ==
  LET s1 == [s EXCEPT
               !.selectedCrop = crop,
               !.filters.cropId = crop,
               !.activeMapLayer = "boundaries",
               !.ndviGrids = EmptyMap,
               !.stressIndices = EmptyMap,
               !.kpiSummary = Null,
               !.effectDue = TRUE]
  IN IF crop # None /\ s1.selectedFarm # None
       THEN LoadKPISummary(LoadFieldBoundaries(s1))
       ELSE s1

\* setActiveMapLayer
SetActiveMapLayer(s, layer) ==
  [s EXCEPT !.activeMapLayer = layer,
            !.effectDue = @ \/ (layer # s.activeMapLayer)]

\* setTimeout(callback, delay)
SetTimer(s, t, arg) == [s EXCEPT !.timers = Append(@, [t |-> t, arg |-> arg])]

Range(seq) == {seq[i] : i \in DOMAIN seq}

\* ------------------------------------------------- store: location search
\* The search radius: let minDistance = 50.
SearchRadius == 50

\* calculateDistance (haversine): for two points of one meridian
\* (dLng = 0) a = sin^2(dLat/2) and c = |dLat|, so the result is the arc
\* between them, here in whole km.
CalculateDistance(p, q) == IF p >= q THEN p - q ELSE q - p

\* ScanFarms as it would be with distance <= minDistance.
RECURSIVE ScanFarmsAtMostMutant(_, _, _, _, _)
ScanFarmsAtMostMutant(farmsArray, i, q, nearestFarm, minDistance) ==
  IF i > Len(farmsArray)
    THEN [farm |-> nearestFarm, distance |-> minDistance]
    ELSE LET distance == CalculateDistance(q, FarmPos(farmsArray[i]))
         IN IF distance <= minDistance
              THEN ScanFarmsAtMostMutant(farmsArray, i + 1, q, farmsArray[i], distance)
              ELSE ScanFarmsAtMostMutant(farmsArray, i + 1, q, nearestFarm, minDistance)

\* farmsArray.forEach from index i on, with the running (nearestFarm,
\* minDistance).
RECURSIVE ScanFarms(_, _, _, _, _)
ScanFarms(farmsArray, i, q, nearestFarm, minDistance) ==
  IF i > Len(farmsArray)
    THEN [farm |-> nearestFarm, distance |-> minDistance]
    ELSE LET distance == CalculateDistance(q, FarmPos(farmsArray[i]))
         IN IF distance < minDistance
              THEN ScanFarms(farmsArray, i + 1, q, farmsArray[i], distance)
              ELSE ScanFarms(farmsArray, i + 1, q, nearestFarm, minDistance)

\* setSearchResult
SetSearchResult(s, status, distance) ==
  [s EXCEPT !.searchResult = [status |-> status, distance |-> distance]]

\* findNearestFarm, the branch that found a farm.
FoundFarm(s, q, found, crops0) ==
  LET s1 == SetSelectedFarm(SetSearchResult(s, "success", found.distance),
                            found.farm)
      defaultCropId == DefaultCropId(found.farm)
      s2 == IF defaultCropId # None /\ Len(crops0) > 0
               /\ defaultCropId \in Range(crops0)
              THEN SetTimer(s1, "crop", defaultCropId)
              ELSE s1
  IN [s2 EXCEPT !.mapCenter = q]

\* findNearestFarm
FindNearestFarm(s, q) ==
  LET s0 == SetSearchResult(s, "searching", -1)
  IN IF Len(s.farms) = 0
       THEN SetSearchResult(s0, "not_found", -1)
       ELSE LET found == ScanFarms(s.farms, 1, q, None, SearchRadius)
            IN IF found.farm # None
                 THEN FoundFarm(s0, q, found, s.crops)
                 ELSE [SetSelectedCrop(
                         SetSelectedFarm(SetSearchResult(s0, "not_found", -1),
                                         None),
                         None)
                       EXCEPT !.mapCenter = q]

\* ------------------------------------------------ store: farms and crops
\* loadFarms / loadCrops, to their await.
LoadFarms(s) ==
  FetchAPI([s EXCEPT !.isLoading = TRUE, !.error = NoErr], "farms", None, None)

LoadCrops(s) ==
  FetchAPI([s EXCEPT !.isLoading = TRUE, !.error = NoErr], "crops", None, None)

\* initializeDashboard: Promise.all([loadFarms(), loadCrops()])
InitializeDashboard(s) == LoadCrops(LoadFarms(s))

\* response.data.find(f => f.id === 'farm-1') || response.data[0]
DefaultFarm(list) == IF "f1" \in Range(list) THEN "f1" ELSE list[1]

\* --------------------------------- store: what follows each await settles
\* loadFarms after its await as it would be if it selected the default farm
\* by a plain set, without setSelectedFarm.
FarmsSettledPlainSetMutant(s, out, env) ==
  LET s1 == IF out = "rejected"
              THEN [s EXCEPT !.error = ErrFarms, !.farms = <<>>]
            ELSE IF env.status = "success"
              THEN LET s2 == [s EXCEPT !.farms = env.data]
                   IN IF s2.selectedFarm = None /\ Len(env.data) > 0
                        THEN [s2 EXCEPT !.selectedFarm = DefaultFarm(env.data),
                                        !.filters.farmId = DefaultFarm(env.data)]
                        ELSE s2
            ELSE s
  IN [s1 EXCEPT !.isLoading = FALSE]

\* out is "resolved" (env is the envelope) or "rejected" (the call threw).
\* loadFarms / loadCrops after their await.
FarmsSettled(s, out, env) ==
  LET s1 == IF out = "rejected"
              THEN [s EXCEPT !.error = ErrFarms, !.farms = <<>>]
            ELSE IF env.status = "success"
              THEN LET s2 == [s EXCEPT !.farms = env.data]
                   IN IF s2.selectedFarm = None /\ Len(env.data) > 0
                        THEN SetSelectedFarm(s2, DefaultFarm(env.data))
                        ELSE s2
            ELSE s
  IN [s1 EXCEPT !.isLoading = FALSE]

CropsSettled(s, out, env) ==
  LET s1 == IF out = "rejected"
              THEN [s EXCEPT !.error = ErrCrops, !.crops = <<>>]
            ELSE IF env.status = "success"
              THEN LET s2 == [s EXCEPT !.crops = env.data]
                   IN IF s2.selectedCrop = None /\ Len(env.data) > 0
                        THEN SetSelectedCrop(s2, env.data[1])
                        ELSE s2
            ELSE s
  IN [s1 EXCEPT !.isLoading = FALSE]

\* loadFieldBoundaries after its await as it would be if it scheduled the
\* loads of the last boundary of the list.
FieldsSettledLastFieldMutant(s, out, env) ==
  LET s1 == IF out = "rejected"
              THEN [s EXCEPT !.error = ErrFields, !.fieldBoundaries = <<>>,
                             !.effectDue = TRUE]
            ELSE IF env.status = "success"
              THEN LET s2 == [s EXCEPT !.fieldBoundaries = env.data,
                                       !.effectDue = TRUE]
                   IN IF Len(env.data) > 0
                        THEN SetTimer(s2, "fieldData", env.data[Len(env.data)])
                        ELSE s2
            ELSE s
  IN [s1 EXCEPT !.isLoading = FALSE]

\* loadFieldBoundaries after its await.
FieldsSettled(s, out, env) ==
  LET s1 == IF out = "rejected"
              THEN [s EXCEPT !.error = ErrFields, !.fieldBoundaries = <<>>,
                             !.effectDue = TRUE]
            ELSE IF env.status = "success"
              THEN LET s2 == [s EXCEPT !.fieldBoundaries = env.data,
                                       !.effectDue = TRUE]
                   IN IF Len(env.data) > 0
                        THEN SetTimer(s2, "fieldData", env.data[1])
                        ELSE s2
            ELSE s
  IN [s1 EXCEPT !.isLoading = FALSE]

\* loadKPISummary's .then / .catch
KPISettled(s, out, env) ==
  IF out = "resolved" /\ env.status = "success"
    THEN [s EXCEPT !.kpiSummary = env.data]
    ELSE s

\* The .then / .catch of a per-field load as they would be if a failure
\* dropped the field's entry and raised the store's error.
PerFieldSettledSurfacesMutant(s, kind, fieldId, out, env) ==
  IF out = "resolved" /\ env.status = "success"
    THEN Publish(s, kind, fieldId, env.data)
    ELSE [s EXCEPT !.error = Err]

\* loadSoilMoisture's (loadYieldPrediction's, loadCarbonMetrics's) .then / .catch
PerFieldSettled(s, kind, fieldId, out, env) ==
  IF out = "resolved" /\ env.status = "success"
    THEN Publish(s, kind, fieldId, env.data)
    ELSE s

\* getNDVIGrid after the timeline: the grid is fetched whatever the
\* timeline's envelope says; a throw reaches loadNDVIGrid's catch.
NDVITimelineSettled(s, fieldId, out, env) ==
  IF out = "rejected"
    THEN [s EXCEPT !.error = Err, !.isLoadingNDVI = FALSE]
    ELSE FetchAPI(s, "ndvi", fieldId, None)

\* loadNDVIGrid after its await.
NDVISettled(s, fieldId, out, env) ==
  IF out = "rejected"
    THEN [s EXCEPT !.error = Err, !.isLoadingNDVI = FALSE]
  ELSE IF env.status = "success"
    THEN [Publish(s, "ndvi", fieldId, env.data) EXCEPT !.isLoadingNDVI = FALSE]
  ELSE [s EXCEPT !.isLoadingNDVI = FALSE]

\* loadStressIndex after its await.
StressSettled(s, fieldId, out, env) ==
  IF out = "rejected"
    THEN [s EXCEPT !.error = Err, !.isLoadingStress = FALSE]
  ELSE IF env.status = "success"
    THEN [Publish(s, "stress", fieldId, env.data) EXCEPT !.isLoadingStress = FALSE]
  ELSE [s EXCEPT !.isLoadingStress = FALSE]

\* The caller that awaits a call of the given kind resumes.
Settled(s, kind, a, b, out, env) ==
  CASE kind = "farms" -> FarmsSettled(s, out, env)
    [] kind = "crops" -> CropsSettled(s, out, env)
    [] kind = "fields" -> FieldsSettled(s, out, env)
    [] kind = "kpi" -> KPISettled(s, out, env)
    [] kind \in DataKinds -> PerFieldSettled(s, kind, a, out, env)
    [] kind = "ndviT" -> NDVITimelineSettled(s, a, out, env)
    [] kind = "ndvi" -> NDVISettled(s, a, out, env)
    [] kind = "stress" -> StressSettled(s, a, out, env)

\* One continuation of the microtask queue runs.
MicroStep(s) ==
  LET c == Head(s.micro)
      s1 == [s EXCEPT !.micro = Tail(@)]
  IN CASE c.t = "kpiImport" -> KPIAfterImport(s1, c.a, c.b)
       [] c.t = "dataImport" -> PerFieldAfterImport(s1, c.kind, c.a)
       [] c.t = "settled" -> Settled(s1, c.kind, c.a, c.b, "resolved", c.env)

\* The microtask checkpoint: continuations run until none is left.
RECURSIVE RunMicro(_)
RunMicro(s) == IF s.micro = <<>> THEN s ELSE RunMicro(MicroStep(s))

\* ------------------------------------------------------------ components
\* DashboardHeader: the crops the crop dropdown offers for the selected farm.
CropOptions(s) ==
  IF s.selectedFarm = None THEN {}
  ELSE {c \in Range(s.crops) :
          IF s.selectedFarm = "f1" THEN c = "c1"
          ELSE IF s.selectedFarm = "f2" THEN c = "c2"
          ELSE TRUE}

\* DashboardHeader: the farm dropdown's onChange.
OnFarmChange(s, farmId) ==
  LET s0 == [s EXCEPT !.searchResult = NoSearch]
  IN IF farmId \in Range(s.farms)
       THEN LET s1 == SetSelectedFarm(s0, farmId)
                defaultCropId == DefaultCropId(farmId)
            IN IF defaultCropId # None /\ Len(s.crops) > 0
                 THEN IF defaultCropId \in Range(s.crops)
                        THEN SetTimer(s1, "crop", defaultCropId)
                        ELSE SetSelectedCrop(s1, None)
                 ELSE SetSelectedCrop(s1, None)
       ELSE SetSelectedCrop(SetSelectedFarm(s0, None), None)

\* DashboardHeader: the crop dropdown's onChange.
OnCropChange(s, cropId) ==
  SetSelectedCrop(s, IF cropId \in Range(s.crops) THEN cropId ELSE None)

\* DashboardPage: ErrorMessage's onRetry.
OnRetry(s) ==
  IF s.selectedFarm # None /\ s.selectedCrop # None
    THEN LoadKPISummary(LoadFieldBoundaries(s))
    ELSE InitializeDashboard(s)

\* FarmMap: fieldBoundaries.forEach(b => if (!grids.has(b.id)) load(b.id))
\* from index i on; grids is the map the render was given.
RECURSIVE ForEachBoundary(_, _, _, _)
ForEachBoundary(s, i, layer, grids) ==
  IF i > Len(s.fieldBoundaries) THEN s
  ELSE LET id == s.fieldBoundaries[i]
           s1 == IF id \in DOMAIN grids THEN s
                 ELSE IF layer = "ndvi" THEN LoadNDVIGrid(s, id)
                 ELSE LoadStressIndex(s, id)
       IN ForEachBoundary(s1, i + 1, layer, grids)

\* FarmMap: the effect that adds the boundaries layer.  The layer, if there
\* is one, is removed and added again (visible, as addLayer leaves it) for a
\* non-empty list; an empty list returns before anything is removed.
BoundariesEffect(s) ==
  IF ~s.mapLoaded \/ Len(s.fieldBoundaries) = 0 THEN s
  ELSE [s EXCEPT !.boundariesLayer =
          [features |-> s.fieldBoundaries, visibility |-> "visible"]]

\* The layer effect's setLayoutProperty on the boundaries layer.
SetVisibility(s) ==
  IF s.boundariesLayer = NoLayer THEN s
  ELSE IF s.activeMapLayer = "boundaries"
    THEN [s EXCEPT !.boundariesLayer.visibility = "visible"]
    ELSE [s EXCEPT !.boundariesLayer.visibility = "none"]

\* The fields whose NDVI (resp. stress) grid the map draws: the effects add
\* no layer but the boundaries layer.
HeatmapFields(s, layer) == {}

\* FarmMap: the layer-switching effect.
LayerEffect(s) ==
  LET s0 == SetVisibility([s EXCEPT !.effectDue = FALSE])
  IN IF ~s.mapLoaded THEN [s EXCEPT !.effectDue = FALSE]
     ELSE IF s.activeMapLayer = "ndvi" /\ Len(s.fieldBoundaries) > 0
       THEN ForEachBoundary(s0, 1, "ndvi", s.ndviGrids)
     ELSE IF s.activeMapLayer = "stress" /\ Len(s.fieldBoundaries) > 0
       THEN ForEachBoundary(s0, 1, "stress", s.stressIndices)
     ELSE s0

\* The callback of a timer: the deferred default crop (setTimeout(.., 0)) or
\* the first field's loads (setTimeout(.., 100)).
TimerCallback(s, timer) ==
  IF timer.t = "crop"
    THEN SetSelectedCrop(s, timer.arg)
    ELSE LoadCarbonMetrics(
           LoadYieldPrediction(LoadSoilMoisture(s, timer.arg), timer.arg),
           timer.arg)

Delay(timer) == IF timer.t = "crop" THEN 0 ELSE 100

\* A pending timer may run once no timer set before it with an equal or
\* shorter delay is still pending.
MayFire(i) == \A j \in 1..(i - 1) : Delay(timers[j]) > Delay(timers[i])

RemoveAt(seq, i) == [j \in 1..(Len(seq) - 1) |-> IF j < i THEN seq[j] ELSE seq[j + 1]]

\* What the backend answers a call with.
BackendData(r) ==
  CASE r.kind = "farms" -> FarmLists
    [] r.kind = "crops" -> {CropList}
    [] r.kind = "fields" -> {FieldsOf(r.a, r.b)}
    [] OTHER -> {r.n}

\* ---------------------------------------------------------- LocationInput
\* What the two inputs may hold when a search is asked for.
LatTexts == {"", " ", "abc", "-91", "-90", "1", "2", "90", "91"}
LngTexts == {"", "abc", "-181", "0", "181"}

\* text.trim()
Trim(text) == IF text = " " THEN "" ELSE text

\* parseFloat(text): NaN, or the number the text begins with.
NaN == [nan |-> TRUE, num |-> 0]
Num(n) == [nan |-> FALSE, num |-> n]
ParseFloat(text) ==
  CASE text = "-181" -> Num(-181)
    [] text = "-91" -> Num(-91)
    [] text = "-90" -> Num(-90)
    [] text = "0" -> Num(0)
    [] text = "1" -> Num(1)
    [] text = "2" -> Num(2)
    [] text = "90" -> Num(90)
    [] text = "91" -> Num(91)
    [] text = "181" -> Num(181)
    [] OTHER -> NaN

\* validateLat as it would be without its range test.
ValidateLatNoRangeMutant(lat) ==
  IF Trim(lat) = "" THEN FALSE
  ELSE IF ParseFloat(lat).nan THEN FALSE
  ELSE TRUE

\* validateLat / validateLng: what they return (the messages they set are
\* shown under the inputs and read by the button alone).
ValidateLat(lat) ==
  IF Trim(lat) = "" THEN FALSE
  ELSE IF ParseFloat(lat).nan THEN FALSE
  ELSE IF ParseFloat(lat).num < -90 \/ ParseFloat(lat).num > 90 THEN FALSE
  ELSE TRUE

ValidateLng(lng) ==
  IF Trim(lng) = "" THEN FALSE
  ELSE IF ParseFloat(lng).nan THEN FALSE
  ELSE IF ParseFloat(lng).num < -180 \/ ParseFloat(lng).num > 180 THEN FALSE
  ELSE TRUE

\* The arc of one degree of latitude, R * PI / 180 with R = 6371, in whole
\* km: the point (lat, 0) lies lat * KmPerDegree along the model's meridian,
\* which is longitude 0.
KmPerDegree == 111

\* handleSearch, with onSearch = findNearestFarm.
HandleSearch(s, latInput, lngInput) ==
  IF /\ ValidateLat(latInput) /\ ValidateLng(lngInput)
     /\ Trim(latInput) # "" /\ Trim(lngInput) # ""
    THEN FindNearestFarm(s, ParseFloat(latInput).num * KmPerDegree)
    ELSE s

\* ---------------------------------------------------------------- actions
\* A macrotask runs to completion; the microtask checkpoint follows it.
Task(s) ==
  /\ micro = <<>>
  /\ Apply(s)

\* A task the user (or the passing of time) starts.
Event(s) ==
  /\ mounted
  /\ events < MaxEvents
  /\ Task([s EXCEPT !.events = @ + 1])

Flush == micro # <<>> /\ Apply(RunMicro(St))

Mount ==
  /\ ~mounted
  /\ Task(InitializeDashboard([St EXCEPT !.mounted = TRUE]))

MapLoad ==
  /\ mounted /\ ~mapLoaded
  /\ Task([St EXCEPT !.mapLoaded = TRUE, !.effectDue = TRUE])

\* The effects whose dependencies changed run after the render, in the order
\* of their declaration.  The boundaries effect has a subset of the layer
\* effect's dependencies; run with unchanged dependencies it adds the layer
\* it removed, and the layer effect sets the visibility after it.
MapEffect == mounted /\ effectDue /\ Task(LayerEffect(BoundariesEffect(St)))

FarmChange(f) ==
  /\ f \in Range(farms)
  /\ Event(OnFarmChange(St, f))

CropChange(c) ==
  /\ c \in CropOptions(St)
  /\ Event(OnCropChange(St, c))

\* LocationInput's onSearch; the inputs are disabled while no farm is known.
Search(q) ==
  /\ Len(farms) > 0
  /\ Event(FindNearestFarm(St, q))

\* Enter in one of the inputs, or the Search button: handleSearch.  The
\* inputs and the button are disabled while no farm is known.
LocationSearch(latInput, lngInput) ==
  /\ Len(farms) > 0
  /\ Event(HandleSearch(St, latInput, lngInput))

\* The store's findNearestFarm called on its own.
FindNearestFarmCall(q) == Event(FindNearestFarm(St, q))

LayerButton(l) ==
  /\ l # activeMapLayer
  /\ Event(SetActiveMapLayer(St, l))

Retry == error # NoErr /\ Event(OnRetry(St))

Dismiss == error # NoErr /\ Event([St EXCEPT !.error = NoErr])

\* The store's loadFieldBoundaries called on its own.
ReloadBoundaries == Event(LoadFieldBoundaries(St))

TimerFires(i) ==
  /\ i \in DOMAIN timers /\ MayFire(i)
  /\ Task(TimerCallback([St EXCEPT !.timers = RemoveAt(@, i)], timers[i]))

\* fetch resolves with a 2xx response whose envelope says "success": the
\* gateway caches it and hands it to the caller.
ResponseSuccess(r) ==
  \E data \in BackendData(r) :
    LET env == Envelope("success", data)
        s1 == CacheSet([St EXCEPT !.reqs = @ \ {r}], r.kind, r.a, r.b, env)
    IN Task(Settled(s1, r.kind, r.a, r.b, "resolved", env))

\* ... whose envelope says "error": cached and handed over all the same.
ResponseErrorEnvelope(r) ==
  LET env == Envelope("error", Null)
      s1 == CacheSet([St EXCEPT !.reqs = @ \ {r}], r.kind, r.a, r.b, env)
  IN Task(Settled(s1, r.kind, r.a, r.b, "resolved", env))

\* fetch rejects, times out, or the response is not ok: fetchAPI throws.
ResponseFails(r) ==
  Task(Settled([St EXCEPT !.reqs = @ \ {r}], r.kind, r.a, r.b, "rejected", NoEnv))

\* The cached entries pass their expiry time.
CacheExpires == cache # EmptyMap /\ Event([St EXCEPT !.cache = EmptyMap])

\* ------------------------------------------------- APICache on its own
CacheKeys == {"k1", "k2"}
CacheValues == {"v1", "v2"}
Ttls == {1, 2}

\* The key of an endpoint's item: the prefix, then the endpoint string as
\* given.  Every key of the cache having the prefix, `localStorage` maps the
\* endpoint string itself to the item.
CACHE_PREFIX == "cropai_cache_"
GetCacheKey(endpoint) == <<CACHE_PREFIX, endpoint>>

\* get's null
Miss == "miss"
NoGet == [endpoint |-> None, value |-> Miss, at |-> -1]

MapRemove(m, k) == [x \in (DOMAIN m) \ {k} |-> m[x]]

\* A stored item that JSON.parse rejects.
Corrupted == [corrupted |-> TRUE]

\* APICache.get as it would be with now >= entry.expiresAt.
APICacheGetExpiresAtMutant(ls, t, endpoint) ==
  IF endpoint \notin DOMAIN ls
    THEN [value |-> Miss, storage |-> ls]
  ELSE IF ls[endpoint] = Corrupted
    THEN [value |-> Miss, storage |-> ls]
  ELSE IF t >= ls[endpoint].expiresAt
    THEN [value |-> Miss, storage |-> MapRemove(ls, endpoint)]
  ELSE [value |-> ls[endpoint].data, storage |-> ls]

\* APICache.get(endpoint) at time t on the storage ls: the value returned
\* and the storage left behind.  An item that cannot be parsed throws into
\* the catch block, which returns null.
APICacheGet(ls, t, endpoint) ==
  IF endpoint \notin DOMAIN ls
    THEN [value |-> Miss, storage |-> ls]
  ELSE IF ls[endpoint] = Corrupted
    THEN [value |-> Miss, storage |-> ls]
  ELSE IF t > ls[endpoint].expiresAt
    THEN [value |-> Miss, storage |-> MapRemove(ls, endpoint)]
  ELSE [value |-> ls[endpoint].data, storage |-> ls]

\* APICache.clear(endpoint)
APICacheClear(ls, endpoint) == MapRemove(ls, endpoint)

\* APICache.clearExpired() at time t: the expired items and those that
\* cannot be parsed are removed.
APICacheClearExpired(ls, t) ==
  [x \in {k \in DOMAIN ls : ls[k] # Corrupted /\ ~(t > ls[k].expiresAt)} |-> ls[x]]

\* localStorage.setItem throws: the storage is full and the key is new.
SetItemThrows(ls, endpoint) ==
  endpoint \notin DOMAIN ls /\ Cardinality(DOMAIN ls) >= Quota

\* APICache.set(endpoint, data, ttlMs) at time t: the item is written, or,
\* setItem throwing, the catch block calls clearExpired.
APICacheSet(ls, t, endpoint, data, ttlMs) ==
  IF SetItemThrows(ls, endpoint)
    THEN APICacheClearExpired(ls, t)
    ELSE MapSet(ls, endpoint,
                [data |-> data, timestamp |-> t, expiresAt |-> t + ttlMs])

Tick ==
  /\ now < MaxClock
  /\ now' = now + 1
  /\ UNCHANGED <<storeVars, gatewayVars, localStorage, lastSet, got>>

CacheGetCall(k) ==
  LET r == APICacheGet(localStorage, now, k)
  IN /\ got' = [endpoint |-> k, value |-> r.value, at |-> now]
     /\ localStorage' = r.storage
     /\ UNCHANGED <<storeVars, gatewayVars, now, lastSet>>

CacheSetCall(k, v, ttlMs) ==
  /\ localStorage' = APICacheSet(localStorage, now, k, v, ttlMs)
  /\ lastSet' = MapSet(lastSet, k, [v |-> v, t |-> now, ttl |-> ttlMs])
  /\ UNCHANGED <<storeVars, gatewayVars, now, got>>

CacheClearCall(k) ==
  /\ k \in DOMAIN localStorage
  /\ localStorage' = APICacheClear(localStorage, k)
  /\ lastSet' = MapRemove(lastSet, k)
  /\ UNCHANGED <<storeVars, gatewayVars, now, got>>

CacheClearAllCall ==
  /\ localStorage # EmptyMap
  /\ localStorage' = EmptyMap
  /\ lastSet' = EmptyMap
  /\ UNCHANGED <<storeVars, gatewayVars, now, got>>

CacheClearExpiredCall ==
  /\ localStorage' = APICacheClearExpired(localStorage, now)
  /\ localStorage' # localStorage
  /\ UNCHANGED <<storeVars, gatewayVars, now, lastSet, got>>

\* ------------------------------------------------- the gateway on its own
\* apiClient.fetchAPI with the client configured for the backend (useMock
\* false; with useMock true every public method answers from the mock data
\* and fetchAPI is not reached), on the storage of APICache.

\* The default ttlMs of APICache.set: 7 days, a unit of `now` being 3.5 days.
CACHE_TTL_MS == 2

\* An endpoint string: the path, then the query parameters as written.
Endpoints ==
  {<<"/kpi", <<"farm_id", "crop_id">>>>, <<"/kpi", <<"crop_id", "farm_id">>>>}

\* options.method; None where no options or no method is given.
Methods == {None, "GET", "POST"}

\* The body of a 2xx response: the JSON text of an envelope whose status is
\* "success", of one whose status is "error", or text that is not JSON.
Bodies == {"success", "error", "invalid"}

\* An error message is modelled by the set of the substrings it holds among
\* those the classification looks for.
Includes(message, part) == part \in message

\* What the body of a non-2xx response (errorText) may hold.
ErrorTexts == {{}, {"timeout"}, {"blocked"}}

\* The messages of the TypeError fetch rejects with: Chrome's 'Failed to
\* fetch', Firefox's 'NetworkError when attempting to fetch resource.',
\* Safari's 'Load failed'.
FetchErrors == {{"Failed to fetch"}, {"NetworkError"}, {}}

ErrorOf(name, message, errorType) ==
  [name |-> name, message |-> message, errorType |-> errorType]

\* The method test of the cache check and of the cache write.
IsRead(method) == method = None \/ method = "GET"

Pending == [status |-> "pending", value |-> None, errorType |-> None]
Returned(data) == [status |-> "returned", value |-> data, errorType |-> None]

\* catch (fetchError)
InnerCatch(err) ==
  IF err.name = "AbortError"
    THEN ErrorOf("Error", {"timeout"}, "timeout")
    ELSE err

\* catch (error): the error fetchAPI throws to its caller.
OuterCatch(err) ==
  IF err.name = "AbortError" \/ Includes(err.message, "timeout")
    THEN ErrorOf("Error", {"timeout"}, "timeout")
  ELSE IF Includes(err.message, "Failed to fetch")
            \/ Includes(err.message, "NetworkError")
    THEN ErrorOf("Error", {}, "network")
  ELSE IF Includes(err.message, "CORS") \/ Includes(err.message, "blocked")
    THEN ErrorOf("Error", {"CORS"}, "network")
  ELSE IF Includes(err.message, "API error:")
    THEN [err EXCEPT !.errorType = "api"]
  ELSE err

\* fetchAPI as it would be if it left its timer pending.
ClearTimeoutNotClearedMutant(call) == call

\* clearTimeout(timeoutId)
ClearTimeout(call) == [call EXCEPT !.timer = FALSE]

\* fetchAPI as it would be if it issued the network call again on an error.
ThrowRetryMutant(call, err) ==
  [call EXCEPT !.phase = "fetch", !.timer = TRUE, !.attempts = @ + 1]

\* An error raised inside the try blocks ends the call: both catch blocks
\* run and the classified error is thrown to the caller.
Throw(call, err) ==
  [ClearTimeout(call) EXCEPT
     !.phase = "done",
     !.result = [status |-> "thrown", value |-> None,
                 errorType |-> OuterCatch(InnerCatch(err)).errorType]]

\* fetchAPI(endpoint, {method}, useCache) at time t, to its first await: the
\* call as it stands and the storage left behind.
FetchAPIBegin(ls, t, endpoint, method, useCache) ==
  LET cached == APICacheGet(ls, t, endpoint)
      call == [endpoint |-> endpoint, method |-> method, useCache |-> useCache,
               phase |-> "done", timer |-> FALSE, ok |-> FALSE,
               attempts |-> 0, aborted |-> FALSE, result |-> Pending]
  IN IF useCache /\ IsRead(method) /\ cached.value # Miss
       THEN [call |-> [call EXCEPT !.result = Returned(cached.value)],
             storage |-> cached.storage]
       ELSE [call |-> [call EXCEPT !.phase = "fetch", !.timer = TRUE,
                                   !.attempts = @ + 1],
             storage |-> IF useCache /\ IsRead(method)
                           THEN cached.storage ELSE ls]

\* await fetch(...) resolves with a response: the timer is cleared and the
\* body is read.
FetchAPIResponse(call, ok) ==
  [ClearTimeout(call) EXCEPT !.phase = "body", !.ok = ok]

\* The body of a response that is not ok has been read.
FetchAPIErrorText(call, errorText) ==
  Throw(call, ErrorOf("Error", {"API error:"} \cup errorText, None))

\* fetchAPI's success path as it would be without its APICache.set.
FetchAPIJsonNoSetMutant(ls, t, call, body) ==
  IF body = "invalid"
    THEN [call |-> Throw(call, ErrorOf("SyntaxError", {}, None)),
          storage |-> ls]
    ELSE [call |-> [call EXCEPT !.phase = "done", !.result = Returned(body)],
          storage |-> ls]

\* await response.json() settles on a response that is ok, at time t.
FetchAPIJson(ls, t, call, body) ==
  IF body = "invalid"
    THEN [call |-> Throw(call, ErrorOf("SyntaxError", {}, None)),
          storage |-> ls]
    ELSE [call |-> [call EXCEPT !.phase = "done", !.result = Returned(body)],
          storage |-> IF call.useCache /\ IsRead(call.method)
                        THEN APICacheSet(ls, t, call.endpoint, body,
                                         CACHE_TTL_MS)
                        ELSE ls]

\* The caller invokes fetchAPI.
FetchAPICall(endpoint, method, useCache) ==
  LET r == FetchAPIBegin(localStorage, now, endpoint, method, useCache)
  IN /\ Len(calls) < MaxCalls
     /\ calls' = Append(calls, r.call)
     /\ localStorage' = r.storage
     /\ UNCHANGED <<storeVars, now, lastSet, got>>

FetchResolves(c, ok) ==
  /\ calls[c].phase = "fetch"
  /\ calls' = [calls EXCEPT ![c] = FetchAPIResponse(@, ok)]
  /\ UNCHANGED <<storeVars, cacheVars>>

\* fetch rejects with a TypeError: the network call failed.
FetchRejects(c, message) ==
  /\ calls[c].phase = "fetch"
  /\ calls' = [calls EXCEPT ![c] = Throw(@, ErrorOf("TypeError", message, None))]
  /\ UNCHANGED <<storeVars, cacheVars>>

\* The 60-second timer of call c runs: controller.abort() rejects what the
\* call is waiting for with an AbortError.
AbortTimerFires(c) ==
  /\ calls[c].timer
  /\ calls[c].phase # "done"
  /\ calls' = [calls EXCEPT ![c] =
                 [Throw(@, ErrorOf("AbortError", {}, None)) EXCEPT
                    !.aborted = TRUE]]
  /\ UNCHANGED <<storeVars, cacheVars>>

ErrorTextRead(c, errorText) ==
  /\ calls[c].phase = "body" /\ ~calls[c].ok
  /\ calls' = [calls EXCEPT ![c] = FetchAPIErrorText(@, errorText)]
  /\ UNCHANGED <<storeVars, cacheVars>>

JsonRead(c, body) ==
  LET r == FetchAPIJson(localStorage, now, calls[c], body)
  IN /\ calls[c].phase = "body" /\ calls[c].ok
     /\ calls' = [calls EXCEPT ![c] = r.call]
     /\ localStorage' = r.storage
     /\ UNCHANGED <<storeVars, now, lastSet, got>>

\* An item of the storage is damaged from outside the cache (another
\* script of the origin, the user, a write cut short).
CorruptEntry(k) ==
  /\ k \in DOMAIN localStorage
  /\ localStorage[k] # Corrupted
  /\ localStorage' = MapSet(localStorage, k, Corrupted)
  /\ UNCHANGED <<storeVars, gatewayVars, now, lastSet, got>>

\* The store as created, nothing mounted, nothing cached.
Init ==
  /\ selectedFarm = InitState.selectedFarm
  /\ selectedCrop = InitState.selectedCrop
  /\ filters = InitState.filters
  /\ farms = InitState.farms
  /\ crops = InitState.crops
  /\ fieldBoundaries = InitState.fieldBoundaries
  /\ kpiSummary = InitState.kpiSummary
  /\ ndviGrids = InitState.ndviGrids
  /\ stressIndices = InitState.stressIndices
  /\ soilMoisture = InitState.soilMoisture
  /\ yieldPrediction = InitState.yieldPrediction
  /\ carbonMetrics = InitState.carbonMetrics
  /\ activeMapLayer = InitState.activeMapLayer
  /\ isLoading = InitState.isLoading
  /\ isLoadingNDVI = InitState.isLoadingNDVI
  /\ isLoadingStress = InitState.isLoadingStress
  /\ error = InitState.error
  /\ locationInput = InitState.locationInput
  /\ mapCenter = InitState.mapCenter
  /\ searchResult = InitState.searchResult
  /\ cache = InitState.cache
  /\ reqs = InitState.reqs
  /\ issued = InitState.issued
  /\ timers = InitState.timers
  /\ micro = InitState.micro
  /\ mounted = InitState.mounted
  /\ mapLoaded = InitState.mapLoaded
  /\ effectDue = InitState.effectDue
  /\ boundariesLayer = InitState.boundariesLayer
  /\ events = InitState.events
  /\ now = 0
  /\ localStorage = EmptyMap
  /\ lastSet = EmptyMap
  /\ got = NoGet
  /\ calls = <<>>

Next ==
  \/ Flush
  \/ Mount
  \/ MapLoad
  \/ MapEffect
  \/ \E f \in FarmIds : FarmChange(f)
  \/ \E c \in CropIds : CropChange(c)
  \/ \E q \in Queries : Search(q)
  \/ \E q \in Queries : FindNearestFarmCall(q)
  \/ \E l \in Layers : LayerButton(l)
  \/ Retry
  \/ Dismiss
  \/ ReloadBoundaries
  \/ \E i \in DOMAIN timers : TimerFires(i)
  \/ \E r \in reqs : ResponseSuccess(r)
  \/ \E r \in reqs : ResponseErrorEnvelope(r)
  \/ \E r \in reqs : ResponseFails(r)
  \/ CacheExpires

Spec == Init /\ [][Next]_vars

\* ------------------------------------------- the parts of the system
\* Each specification below lets one part of the system run, with the
\* actions defined above.  What a specification leaves out is a caller or a
\* response whose effects the properties stated under it do not read; a
\* request it never answers stays in flight.

\* APICache under any use.
NextCache ==
  \/ Tick
  \/ \E k \in CacheKeys : CacheGetCall(k)
  \/ \E k \in CacheKeys, v \in CacheValues, ttlMs \in Ttls : CacheSetCall(k, v, ttlMs)
  \/ \E k \in CacheKeys : CacheClearCall(k)
  \/ CacheClearAllCall
  \/ CacheClearExpiredCall

SpecCache == Init /\ [][NextCache]_vars

\* The selection, the boundary list and the KPI under the dropdowns, retry,
\* dismiss, reload and cache expiry; the first field's timer stays pending.
SelectionKinds == {"farms", "crops", "fields", "kpi"}

NextSelection ==
  \/ Flush
  \/ Mount
  \/ \E f \in FarmIds : FarmChange(f)
  \/ \E c \in CropIds : CropChange(c)
  \/ Retry
  \/ Dismiss
  \/ ReloadBoundaries
  \/ \E i \in DOMAIN timers : timers[i].t = "crop" /\ TimerFires(i)
  \/ \E r \in reqs : r.kind \in SelectionKinds /\ ResponseSuccess(r)
  \/ \E r \in reqs : r.kind \in SelectionKinds /\ ResponseFails(r)
  \/ CacheExpires

SpecSelection == Init /\ [][NextSelection]_vars

\* The location search over the farm list as loaded, not loaded, or failed
\* to load; the boundary and KPI requests a found farm starts stay in
\* flight.
NextSearch ==
  \/ Flush
  \/ Mount
  \/ \E q \in Queries : Search(q)
  \/ \E q \in Queries : FindNearestFarmCall(q)
  \/ \E i \in DOMAIN timers : timers[i].t = "crop" /\ TimerFires(i)
  \/ \E r \in reqs : r.kind \in {"farms", "crops"} /\ ResponseSuccess(r)
  \/ \E r \in reqs : r.kind \in {"farms", "crops"} /\ ResponseFails(r)

SpecSearch == Init /\ [][NextSearch]_vars

\* The location search as the component asks for it, on whatever its
\* inputs hold.
NextLocation ==
  \/ Flush
  \/ Mount
  \/ \E latInput \in LatTexts, lngInput \in LngTexts :
       LocationSearch(latInput, lngInput)
  \/ \E i \in DOMAIN timers : timers[i].t = "crop" /\ TimerFires(i)
  \/ \E r \in reqs : r.kind \in {"farms", "crops"} /\ ResponseSuccess(r)
  \/ \E r \in reqs : r.kind \in {"farms", "crops"} /\ ResponseFails(r)

SpecLocation == Init /\ [][NextLocation]_vars

\* The first field's soil moisture under changes of the selection made in
\* the dropdowns; the yield, carbon and KPI requests stay in flight.
StaleKinds == {"farms", "crops", "fields", "soil"}

NextStale ==
  \/ Flush
  \/ Mount
  \/ \E f \in FarmIds : FarmChange(f)
  \/ \E c \in CropIds : CropChange(c)
  \/ \E i \in DOMAIN timers : TimerFires(i)
  \/ \E r \in reqs : r.kind \in StaleKinds /\ ResponseSuccess(r)

SpecStale == Init /\ [][NextStale]_vars

\* The first field's three datasets under repeated loads of the boundary
\* list (the crop dropdown re-selecting the crop); every answered request
\* succeeds, and the KPI requests stay in flight.
LoadKinds == {"farms", "crops", "fields"} \cup DataKinds

NextData ==
  \/ Flush
  \/ Mount
  \/ \E c \in CropIds : CropChange(c)
  \/ \E i \in DOMAIN timers : TimerFires(i)
  \/ \E r \in reqs : r.kind \in LoadKinds /\ ResponseSuccess(r)

SpecData == Init /\ [][NextData]_vars

\* The background loads under failures: the crop dropdown re-selecting the
\* crop, the boundary list, the soil-moisture and the KPI requests answered
\* or failing, the yield and carbon requests failing, and the cached
\* entries expiring.
BackgroundKinds == DataKinds \cup {"kpi"}
AnsweredKinds == {"farms", "crops", "fields", "soil", "kpi"}

NextBackground ==
  \/ Flush
  \/ Mount
  \/ \E c \in CropIds : CropChange(c)
  \/ \E i \in DOMAIN timers : TimerFires(i)
  \/ \E r \in reqs : r.kind \in AnsweredKinds /\ ResponseSuccess(r)
  \/ \E r \in reqs : r.kind \in BackgroundKinds /\ ResponseFails(r)
  \/ CacheExpires

SpecBackground == Init /\ [][NextBackground]_vars

\* The map overlays under changes of the layer and of the selection; the
\* first field's timer and the KPI requests stay pending.
OverlayKinds == {"ndviT", "ndvi", "stress"}

NextOverlay ==
  \/ Flush
  \/ Mount
  \/ MapLoad
  \/ MapEffect
  \/ \E l \in Layers : LayerButton(l)
  \/ \E f \in FarmIds : FarmChange(f)
  \/ \E c \in CropIds : CropChange(c)
  \/ \E i \in DOMAIN timers : timers[i].t = "crop" /\ TimerFires(i)
  \/ \E r \in reqs : r.kind \in {"farms", "crops", "fields"} \cup OverlayKinds
                     /\ ResponseSuccess(r)
  \/ \E r \in reqs : r.kind \in OverlayKinds /\ ResponseErrorEnvelope(r)
  \/ \E r \in reqs : r.kind \in OverlayKinds /\ ResponseFails(r)

SpecOverlay == Init /\ [][NextOverlay]_vars

\* The overlays under a selection that stays as the initial load made it:
\* the layer buttons are the only user events, and an overlay request is
\* answered with success or fails.  The microtask checkpoint follows every
\* task, React runs a due effect after the render, the map fires its load
\* event, and every fetch settles (the gateway's timer aborts it at the
\* latest), so these steps are taken once they stay possible.
OverlayResponse ==
  \/ \E r \in reqs : r.kind \in {"farms", "crops", "fields"} \cup OverlayKinds
                     /\ ResponseSuccess(r)
  \/ \E r \in reqs : r.kind \in OverlayKinds /\ ResponseFails(r)

NextOverlayLoads ==
  \/ Flush
  \/ Mount
  \/ MapLoad
  \/ MapEffect
  \/ \E l \in Layers : LayerButton(l)
  \/ OverlayResponse

SpecOverlayLoads ==
  /\ Init /\ [][NextOverlayLoads]_vars
  /\ WF_vars(Flush) /\ WF_vars(Mount) /\ WF_vars(MapLoad)
  /\ WF_vars(MapEffect) /\ WF_vars(OverlayResponse)

\* APICache under get, set and clearExpired, with more keys than the
\* storage has room for, one ttl, and items damaged from outside.
FaultKeys == CacheKeys \cup {"k3"}
FaultTtls == {1}

NextCacheFaults ==
  \/ Tick
  \/ \E k \in FaultKeys : CacheGetCall(k)
  \/ \E k \in FaultKeys, v \in CacheValues, ttlMs \in FaultTtls :
       CacheSetCall(k, v, ttlMs)
  \/ CacheClearExpiredCall
  \/ \E k \in FaultKeys : CorruptEntry(k)

SpecCacheFaults == Init /\ [][NextCacheFaults]_vars

\* The gateway under any calls, answers and failures of the network, with
\* the clock running.
NextGateway ==
  \/ Tick
  \/ \E endpoint \in Endpoints, method \in Methods, useCache \in BOOLEAN :
       FetchAPICall(endpoint, method, useCache)
  \/ \E c \in DOMAIN calls, ok \in BOOLEAN : FetchResolves(c, ok)
  \/ \E c \in DOMAIN calls, message \in FetchErrors : FetchRejects(c, message)
  \/ \E c \in DOMAIN calls : AbortTimerFires(c)
  \/ \E c \in DOMAIN calls, errorText \in ErrorTexts : ErrorTextRead(c, errorText)
  \/ \E c \in DOMAIN calls, body \in Bodies : JsonRead(c, body)

SpecGateway == Init /\ [][NextGateway]_vars

\* ---------------------------------------------- the endpoint strings
\* A string is the sequence of its pieces: the separators "?", "&" and "="
\* and the path prefixes are pieces of their own, a name or a value is one
\* piece, and the empty string has no piece.  No name or value holds a
\* separator, so two strings are equal exactly when their pieces are.
Undefined == [undefined |-> TRUE]

\* The arguments a load may be given: a location (with a latitude of 0 or
\* not) or none, a date range or none.
Locations == {Undefined, [lat |-> 0, lng |-> 127], [lat |-> 37, lng |-> 127]}
DateRanges == {Undefined, [start |-> "2024-01-01", end |-> "2024-01-31T00:00"]}

\* Number.prototype.toString, and a number in a template literal.
NumberToString(n) ==
  CASE n = 0 -> "0"
    [] n = 37 -> "37"
    [] n = 127 -> "127"

\* The percent-encoding URLSearchParams applies to a value.
Encode(v) == IF v = "2024-01-31T00:00" THEN "2024-01-31T00%3A00" ELSE v

\* URLSearchParams.toString() of the appended (name, value) pairs.
RECURSIVE ParamsToString(_)
ParamsToString(params) ==
  IF params = <<>> THEN <<>>
  ELSE LET p == params[1]
           rest == ParamsToString(Tail(params))
       IN <<p[1], "=", Encode(p[2])>>
          \o (IF rest = <<>> THEN <<>> ELSE <<"&">> \o rest)

\* The params of a per-field load: lat and lng if a location is given,
\* then date_start and date_end.  The store and the gateway build them by
\* the same statements.
PerFieldParams(dateRange, location) ==
  (IF location # Undefined
     THEN <<(<<"lat", NumberToString(location.lat)>>),
            (<<"lng", NumberToString(location.lng)>>)>>
     ELSE <<>>)
  \o (IF dateRange # Undefined
        THEN <<(<<"date_start", dateRange.start>>),
               (<<"date_end", dateRange.end>>)>>
        ELSE <<>>)

PathOf(kind) ==
  CASE kind = "soil" -> "/soil-moisture/"
    [] kind = "yield" -> "/yield-prediction/"
    [] kind = "carbon" -> "/carbon-metrics/"

\* The cacheKey the store's load reads: `<path><fieldId>?<params>`.
PerFieldCacheKey(kind, fieldId, dateRange, location) ==
  <<PathOf(kind), fieldId, "?">>
  \o ParamsToString(PerFieldParams(dateRange, location))

\* The endpoint the gateway's method passes to fetchAPI, which is the key
\* the response is stored under.  getSoilMoisture leaves the "?" out of an
\* empty query string; getYieldPrediction and getCarbonMetrics do not.
PerFieldEndpoint(kind, fieldId, dateRange, location) ==
  LET queryString == ParamsToString(PerFieldParams(dateRange, location))
  IN IF kind = "soil" /\ queryString = <<>>
       THEN <<PathOf(kind), fieldId>>
       ELSE <<PathOf(kind), fieldId, "?">> \o queryString

\* loadKPISummary's lat and lng: the selected farm's location, if it has one.
\* The cacheKey is a template literal: farm_id and crop_id always, lat and
\* lng when lat is truthy.
KPICacheKey(farmId, cropId, location) ==
  <<"/kpi", "?", "farm_id", "=", farmId, "&", "crop_id", "=", cropId>>
  \o (IF location # Undefined /\ location.lat # 0
        THEN <<"&", "lat", "=", NumberToString(location.lat),
               "&", "lng", "=", NumberToString(location.lng)>>
        ELSE <<>>)

\* getKPISummary's endpoint: lat and lng are appended when not undefined.
KPIEndpoint(farmId, cropId, location) ==
  <<"/kpi", "?">>
  \o ParamsToString(
       <<(<<"farm_id", farmId>>), (<<"crop_id", cropId>>)>>
       \o (IF location # Undefined
             THEN <<(<<"lat", NumberToString(location.lat)>>),
                    (<<"lng", NumberToString(location.lng)>>)>>
             ELSE <<>>))

\* The loads with their arguments.
LoadCalls ==
  [kind : DataKinds, dateRange : DateRanges, location : Locations]
  \cup [kind : {"kpi"}, dateRange : {Undefined}, location : Locations]

\* The key a load reads for optimistic display, and the endpoint of the
\* request it then makes.
CacheKeyOf(l) ==
  IF l.kind = "kpi" THEN KPICacheKey("f1", "c1", l.location)
  ELSE PerFieldCacheKey(l.kind, "A", l.dateRange, l.location)

EndpointOf(l) ==
  IF l.kind = "kpi" THEN KPIEndpoint("f1", "c1", l.location)
  ELSE PerFieldEndpoint(l.kind, "A", l.dateRange, l.location)

\* The loads made on the cache: each kind without arguments or with a
\* location, the soil-moisture load also with a latitude of 0 and a date
\* range, the KPI load for a farm at latitude 0 and for one elsewhere.
LoadsMade ==
  {l \in LoadCalls :
     \/ l.dateRange = Undefined /\ l.location = Undefined /\ l.kind # "kpi"
     \/ l.kind = "soil" /\ l.dateRange # Undefined /\ l.location # Undefined
                        /\ l.location.lat = 0
     \/ l.kind = "kpi" /\ l.location # Undefined}

\* A load reads the cache for optimistic display.
LoadReadsCache(l) == CacheGetCall(CacheKeyOf(l))

\* The response of a load's request is stored by fetchAPI.
LoadResponseStored(l) ==
  /\ localStorage' = APICacheSet(localStorage, now, EndpointOf(l), "v1",
                                 CACHE_TTL_MS)
  /\ UNCHANGED <<storeVars, gatewayVars, now, lastSet, got>>

\* The loads' reads and their responses' writes on the cache, with the
\* clock running.
NextKeys ==
  \/ Tick
  \/ \E l \in LoadsMade : LoadReadsCache(l)
  \/ \E l \in LoadsMade : LoadResponseStored(l)

SpecKeys == Init /\ [][NextKeys]_vars

\* ------------------------------------------------------------ properties
Selected(farm, crop) == farm # None /\ crop # None

HasEntry(kind, fieldId) == fieldId \in DOMAIN MapOf(St, kind)

EntryOf(kind, fieldId) == MapOf(St, kind)[fieldId]

\* The network call r is answered with its own "success" envelope in this
\* step.
Succeeds(r) ==
  /\ r \in reqs
  /\ r \notin reqs'
  /\ Endpoint(r.kind, r.a, r.b) \in DOMAIN cache'
  /\ cache'[Endpoint(r.kind, r.a, r.b)] = Envelope("success", r.n)

\* C1: a per-field load for a field that is in flight when the selection
\* moves to a (farm, crop) pair whose boundary list does not hold the field
\* adds no entry for the field to its per-field map when it succeeds.
C1_StaleSuppression ==
  [][\A r \in reqs :
       (/\ r.kind \in DataKinds \cup {"ndvi", "stress"}
        /\ Succeeds(r)
        /\ Selected(selectedFarm, selectedCrop)
        /\ r.sel # <<selectedFarm, selectedCrop>>
        /\ r.a \notin Range(FieldsOf(selectedFarm, selectedCrop)))
       => (HasEntry(r.kind, r.a)' => HasEntry(r.kind, r.a))]_vars

\* Farm f2 with crop c2 is selected, its boundary list is loaded, and the
\* soil-moisture map holds an entry for field A of the pair (f1, c1).
C1_StaleEntryPresent ==
  /\ selectedFarm = "f2" /\ selectedCrop = "c2"
  /\ fieldBoundaries = <<"C">>
  /\ "A" \in DOMAIN soilMoisture

\* C2: a step that moves the selection to farm F while a crop is selected
\* ends with F's default crop selected, or none if F has no default crop,
\* and so never with F paired with the crop selected before.
C2_SelectionAtomic ==
  [][(selectedFarm' # selectedFarm /\ selectedFarm' # None
      /\ selectedCrop # None)
     => selectedCrop' = DefaultCropId(selectedFarm')]_vars

\* Farm f2, which has no default crop, is selected together with crop c1,
\* and nothing is pending that would change the selection.
C2_FarmWithPreviousCrop ==
  /\ selectedFarm = "f2" /\ selectedCrop = "c1"
  /\ micro = <<>> /\ timers = <<>>

AllPerFieldMapsEmpty ==
  /\ soilMoisture = EmptyMap
  /\ yieldPrediction = EmptyMap
  /\ carbonMetrics = EmptyMap
  /\ ndviGrids = EmptyMap
  /\ stressIndices = EmptyMap

\* C3: when a handler that calls setSelectedFarm or setSelectedCrop (the
\* farm dropdown, the crop dropdown) returns, the five per-field maps are
\* empty and kpiSummary is null.
C3_MapsClearedOnSelection ==
  [][((\E f \in FarmIds : FarmChange(f)) \/ (\E c \in CropIds : CropChange(c)))
     => (AllPerFieldMapsEmpty' /\ kpiSummary' = Null)]_vars

\* The farm dropdown has moved the selection to f2 (which clears the crop),
\* and the soil-moisture map still holds field A.
C3_MapSurvivesSelection ==
  /\ selectedFarm = "f2" /\ selectedCrop = None
  /\ "A" \in DOMAIN soilMoisture

\* C4: for an entry stored by set(k, v, ttl) at time t that no set or clear
\* of k has followed, get(k) at time now returns v if now <= t + ttl;
\* otherwise it reports a miss and the entry is gone from the storage.
C4_CacheTTL ==
  [][\A k \in CacheKeys :
       (CacheGetCall(k) /\ k \in DOMAIN lastSet)
       => IF now <= lastSet[k].t + lastSet[k].ttl
            THEN got'.value = lastSet[k].v
            ELSE got'.value = Miss /\ k \notin DOMAIN localStorage']_vars

\* A get returned the value at the very time its entry expires (t + ttl).
C4_HitAtExpiry ==
  /\ got.endpoint \in DOMAIN lastSet
  /\ got.at = lastSet[got.endpoint].t + lastSet[got.endpoint].ttl
  /\ got.value = lastSet[got.endpoint].v

\* A get one tick past expiry missed, and the entry is no longer stored.
C4_MissPastExpiry ==
  /\ got.endpoint \in DOMAIN lastSet
  /\ got.at = lastSet[got.endpoint].t + lastSet[got.endpoint].ttl + 1
  /\ got.value = Miss
  /\ got.endpoint \notin DOMAIN localStorage

\* C5: when a soil-moisture, yield-prediction or carbon-metrics request
\* succeeds, the per-field map entry of its field holds that response's
\* value, whatever the entry held and whichever request was issued first:
\* of two overlapping loads the one that resolves last leaves its value.
C5_LastWriteWins ==
  [][\A r \in reqs :
       (r.kind \in DataKinds /\ Succeeds(r))
       => (HasEntry(r.kind, r.a)' /\ EntryOf(r.kind, r.a)' = r.n)]_vars

\* Two soil-moisture requests for field A were made and both have resolved,
\* the first one last: the entry holds the first request's value.
C5_ResolvedOutOfOrder ==
  /\ issued["soil"] = 2
  /\ ~\E r \in reqs : r.kind = "soil"
  /\ "A" \in DOMAIN soilMoisture
  /\ soilMoisture["A"] = 1

\* C6: kpiSummary is non-null only while both a farm and a crop are
\* selected.
C6_KPIOnlyWithSelection ==
  kpiSummary # Null => Selected(selectedFarm, selectedCrop)

\* A KPI value is held while no crop is selected.
C6_KPIWithPartialSelection ==
  /\ kpiSummary # Null
  /\ selectedFarm # None /\ selectedCrop = None

RequestKinds == {"fields", "kpi"}

\* The boundary and KPI requests made in this step.
NewRequests == {r \in reqs' \ reqs : r.kind \in RequestKinds}

\* A KPI load is waiting for its import.
KPIQueued == \E i \in DOMAIN micro : micro[i].t = "kpiImport"

\* C7: a boundary or KPI request is sent only while both a farm and a crop
\* are selected, and for that pair; a step that selects a farm while no crop
\* is selected, or a crop while no farm is selected, starts no boundary or
\* KPI load; loadFieldBoundaries with a partial selection empties
\* fieldBoundaries and sends nothing.
C7_RequestsNeedSelection ==
  /\ [](\A r \in reqs : r.kind \in RequestKinds
          => (Selected(r.sel[1], r.sel[2]) /\ Selected(r.a, r.b)))
  /\ [][/\ (selectedFarm' # selectedFarm /\ selectedCrop = None
            /\ selectedCrop' = None)
           => (NewRequests = {} /\ ~KPIQueued')
        /\ (selectedCrop' # selectedCrop /\ selectedFarm = None
            /\ selectedFarm' = None)
           => (NewRequests = {} /\ ~KPIQueued')
        /\ (ReloadBoundaries /\ ~Selected(selectedFarm, selectedCrop))
           => (fieldBoundaries' = <<>> /\ reqs' = reqs /\ micro' = <<>>)]_vars

\* A KPI request is in flight that was sent while no crop was selected.
C7_KPIRequestWithoutCrop ==
  \E r \in reqs : r.kind = "kpi" /\ r.sel[1] # None /\ r.sel[2] = None

\* F is the farm of the list nearest to q within the radius, the earliest
\* such in the list.
IsNearest(list, F, q) ==
  \E i \in DOMAIN list :
    /\ list[i] = F
    /\ CalculateDistance(q, FarmPos(F)) < SearchRadius
    /\ \A j \in DOMAIN list :
         CalculateDistance(q, FarmPos(list[j])) >= CalculateDistance(q, FarmPos(F))
    /\ \A j \in 1..(i - 1) :
         CalculateDistance(q, FarmPos(list[j])) > CalculateDistance(q, FarmPos(F))

\* A call of findNearestFarm(q), from LocationInput or on its own.
Searches(q) == Search(q) \/ FindNearestFarmCall(q)

\* C8: findNearestFarm(q) selects farm F exactly when F's distance to q is
\* below 50 km and minimal over the known farms, the earliest in the list
\* among those at the minimal distance; searchResult then has status
\* 'success' and F's distance.
C8_NearestFarm ==
  [][\A q \in Queries :
       Searches(q)
       => /\ \A F \in FarmIds :
               (searchResult'.status = "success" /\ selectedFarm' = F)
               <=> IsNearest(farms, F, q)
          /\ searchResult'.status = "success"
             => searchResult'.distance = CalculateDistance(q, FarmPos(selectedFarm'))
          /\ searchResult'.status \in {"success", "not_found"}]_vars

\* A search at equal distance (30 km) from both farms selected the farm
\* listed first, f2.
C8_TieSelectsEarliest ==
  /\ farms = <<"f2", "f1">>
  /\ searchResult = [status |-> "success", distance |-> 30]
  /\ selectedFarm = "f2"
  /\ mapCenter = 130

\* C9: when findNearestFarm(q) finds no farm within 50 km, whatever the farm
\* list holds, it ends with searchResult.status = 'not_found', no farm and
\* no crop selected, and mapCenter at q.
C9_NotFoundClears ==
  [][\A q \in Queries :
       (/\ Searches(q)
        /\ \A i \in DOMAIN farms :
             CalculateDistance(q, FarmPos(farms[i])) >= SearchRadius)
       => /\ searchResult'.status = "not_found"
          /\ selectedFarm' = None
          /\ selectedCrop' = None
          /\ mapCenter' = q]_vars

\* A search was answered 'not_found' while a crop stays selected and the
\* map was never centred.
C9_NotFoundKeepsSelection ==
  /\ searchResult.status = "not_found"
  /\ selectedCrop # None
  /\ mapCenter = Null

InFlight(kinds) == {r \in reqs : r.kind \in kinds}

\* C10: loadNDVIGrid(fieldId) changes nothing while an NDVI load is in
\* progress or ndviGrids holds fieldId, and likewise loadStressIndex; at most
\* one NDVI request (timeline or grid) and one stress request is in flight.
C10_SingleFlight ==
  /\ \A id \in FieldIds :
       /\ (isLoadingNDVI \/ id \in DOMAIN ndviGrids) => LoadNDVIGrid(St, id) = St
       /\ (isLoadingStress \/ id \in DOMAIN stressIndices)
          => LoadStressIndex(St, id) = St
  /\ Cardinality(InFlight({"ndviT", "ndvi"})) <= 1
  /\ Cardinality(InFlight({"stress"})) <= 1

\* The layer effect has run over the boundaries A and B of the NDVI
\* overlay: the load of A is in flight, and the call for B, which has no
\* entry, sent nothing.
C10_SecondFieldSkipped ==
  /\ activeMapLayer = "ndvi" /\ ~effectDue /\ mapLoaded
  /\ fieldBoundaries = <<"A", "B">>
  /\ isLoadingNDVI
  /\ "B" \notin DOMAIN ndviGrids
  /\ \E r \in reqs : r.kind \in {"ndviT", "ndvi"} /\ r.a = "A"
  /\ ~\E r \in reqs : r.kind \in {"ndviT", "ndvi"} /\ r.a = "B"

\* A cache-using read: useCache with no method or with GET.
CachedRead(call) == call.useCache /\ IsRead(call.method)

\* C11: a GET with useCache = true whose endpoint has an entry in the cache
\* that has not expired returns the cached payload and makes no network
\* call; after a miss, a GET that returns has stored the payload it returns
\* under its endpoint, with the default TTL.
C11_CacheFirst ==
  [][/\ \A endpoint \in Endpoints, method \in Methods :
          (/\ FetchAPICall(endpoint, method, TRUE)
           /\ IsRead(method)
           /\ endpoint \in DOMAIN localStorage
           /\ now <= localStorage[endpoint].expiresAt)
          => /\ calls'[Len(calls')].attempts = 0
             /\ calls'[Len(calls')].result
                  = Returned(localStorage[endpoint].data)
             /\ localStorage' = localStorage
     /\ \A c \in DOMAIN calls, body \in Bodies :
          (/\ JsonRead(c, body)
           /\ CachedRead(calls[c])
           /\ calls'[c].result.status = "returned")
          => /\ calls[c].endpoint \in DOMAIN localStorage'
             /\ localStorage'[calls[c].endpoint]
                  = [data |-> calls'[c].result.value, timestamp |-> now,
                     expiresAt |-> now + CACHE_TTL_MS]]_vars

\* A GET fetched and stored its payload, and a later GET for the endpoint
\* was answered from the cache without a network call.
C11_HitAfterMiss ==
  \E c, d \in DOMAIN calls :
    /\ c < d
    /\ calls[c].endpoint = calls[d].endpoint
    /\ CachedRead(calls[c]) /\ CachedRead(calls[d])
    /\ calls[c].attempts = 1 /\ calls[c].result.status = "returned"
    /\ calls[d].attempts = 0
    /\ calls[d].result = calls[c].result

\* The endpoints whose stored entry this step writes.
Written ==
  {e \in DOMAIN localStorage' :
     e \notin DOMAIN localStorage \/ localStorage'[e] # localStorage[e]}

\* C12: the gateway writes a cache entry only in the step in which a GET
\* with useCache = true, answered 2xx, returns an envelope whose status is
\* "success"; no other outcome and no other request writes one.
C12_OnlySuccessCached ==
  [][\A e \in Written :
       \E c \in DOMAIN calls :
         /\ calls[c].endpoint = e
         /\ CachedRead(calls[c])
         /\ calls[c].phase = "body" /\ calls[c].ok
         /\ calls'[c].result = Returned("success")]_vars

\* The cache holds an envelope whose status is "error", and a later GET for
\* its endpoint was answered with it from the cache.
C12_ErrorEnvelopeServed ==
  \E c \in DOMAIN calls :
    /\ calls[c].attempts = 0
    /\ calls[c].result = Returned("error")
    /\ calls[c].endpoint \in DOMAIN localStorage
    /\ localStorage[calls[c].endpoint].data = "error"

\* The error taxonomy.
ErrorTypes == {"network", "timeout", "api", "validation"}

\* C13: every error fetchAPI throws to its caller carries an errorType, one
\* of network, timeout, api and validation.
C13_FailuresClassified ==
  \A c \in DOMAIN calls :
    calls[c].result.status = "thrown" => calls[c].result.errorType \in ErrorTypes

\* A call that was answered 2xx with a body that is not JSON threw an error
\* without an errorType.
C13_UnclassifiedFailure ==
  \E c \in DOMAIN calls :
    /\ calls[c].ok
    /\ calls[c].result.status = "thrown"
    /\ calls[c].result.errorType = None

\* C14: the 60-second timer of a call is pending exactly while its fetch is
\* unanswered; when it fires the call is aborted and ends by throwing an
\* error classified as timeout; a call whose fetch has been answered is
\* never aborted.
C14_Timeout ==
  [][\A c \in DOMAIN calls :
       /\ calls[c].timer <=> calls[c].phase = "fetch"
       /\ AbortTimerFires(c)
            => /\ calls[c].phase = "fetch"
               /\ calls'[c].phase = "done"
               /\ calls'[c].aborted
               /\ calls'[c].result.status = "thrown"
               /\ calls'[c].result.errorType = "timeout"
       /\ calls[c].phase # "fetch" => calls'[c].aborted = calls[c].aborted]_vars

\* One call was aborted by its timer and threw a timeout error; another was
\* answered in time and returned.
C14_AbortedAndAnswered ==
  \E c, d \in DOMAIN calls :
    /\ calls[c].aborted
    /\ calls[c].result.errorType = "timeout"
    /\ ~calls[d].aborted
    /\ calls[d].attempts = 1
    /\ calls[d].result.status = "returned"

\* C15: a fetchAPI call that is not answered from the cache makes one
\* network attempt and never another: the number of its attempts does not
\* change after the call has begun, whatever its outcome, and a call that
\* has ended stays as it ended.  Only a call answered from the cache makes
\* none.
C15_SingleAttempt ==
  [][\A c \in DOMAIN calls :
       /\ calls[c].attempts \in {0, 1}
       /\ calls[c].attempts = 0
            => CachedRead(calls[c]) /\ calls[c].result.status = "returned"
       /\ calls'[c].attempts = calls[c].attempts
       /\ calls[c].phase = "done" => calls'[c] = calls[c]]_vars

\* A call ended in an error after its one attempt; the caller invoked
\* fetchAPI again for the endpoint and that call made its own attempt.
C15_SecondCallAfterFailure ==
  \E c, d \in DOMAIN calls :
    /\ c < d
    /\ calls[c].endpoint = calls[d].endpoint
    /\ calls[c].result.status = "thrown" /\ calls[c].attempts = 1
    /\ calls[d].attempts = 1

\* C16: get(k) on an item that cannot be parsed reports a miss and leaves
\* the storage without the item.
C16_CorruptedRemoved ==
  [][\A k \in FaultKeys :
       (/\ CacheGetCall(k)
        /\ k \in DOMAIN localStorage
        /\ localStorage[k] = Corrupted)
       => got'.value = Miss /\ k \notin DOMAIN localStorage']_vars

\* The latest get reported a miss for a key whose corrupted item is still
\* stored.
C16_CorruptedKept ==
  /\ got.value = Miss
  /\ got.at = now
  /\ got.endpoint \in DOMAIN localStorage
  /\ localStorage[got.endpoint] = Corrupted

\* The items clearExpired removes at time t.
Evictable(ls, t) ==
  {k \in DOMAIN ls : ls[k] = Corrupted \/ t > ls[k].expiresAt}

\* C17: set(k, v, ttl) on a full storage evicts the expired items and then
\* writes: where that made room, k holds v afterwards and the unexpired
\* items are as they were; where it made none, the storage is unchanged.
C17_SetRetriesAfterEviction ==
  [][\A k \in FaultKeys, v \in CacheValues, ttlMs \in FaultTtls :
       (CacheSetCall(k, v, ttlMs) /\ SetItemThrows(localStorage, k))
       => IF Evictable(localStorage, now) = {}
            THEN localStorage' = localStorage
            ELSE /\ k \in DOMAIN localStorage'
                 /\ localStorage'[k]
                      = [data |-> v, timestamp |-> now, expiresAt |-> now + ttlMs]
                 /\ \A x \in DOMAIN localStorage \ Evictable(localStorage, now) :
                      x \in DOMAIN localStorage'
                      /\ localStorage'[x] = localStorage[x]]_vars

\* set was called for a key at this very time and no clear has followed,
\* the storage has room, and the key is not stored.
C17_WriteDroppedWithRoom ==
  \E k \in DOMAIN lastSet :
    /\ lastSet[k].t = now
    /\ k \notin DOMAIN localStorage
    /\ Cardinality(DOMAIN localStorage) < Quota

\* C18: when the request of a soil-moisture, yield-prediction,
\* carbon-metrics or KPI load fails, the per-field maps, kpiSummary and the
\* store's error are after the failure what they were before it.
C18_FailureKeepsValue ==
  [][\A r \in reqs :
       (r.kind \in BackgroundKinds /\ ResponseFails(r))
       => /\ soilMoisture' = soilMoisture
          /\ yieldPrediction' = yieldPrediction
          /\ carbonMetrics' = carbonMetrics
          /\ kpiSummary' = kpiSummary
          /\ error' = error]_vars

\* The yield-prediction request for field A has failed, leaving no entry
\* and no error, and a soil-moisture request for A is in flight while the
\* map already holds a value for A and a KPI value is shown.
C18_FailedWithValueShown ==
  /\ issued["yield"] > 0
  /\ ~\E r \in reqs : r.kind = "yield"
  /\ "A" \notin DOMAIN yieldPrediction
  /\ error = NoErr
  /\ \E r \in reqs : r.kind = "soil" /\ r.a = "A"
  /\ "A" \in DOMAIN soilMoisture
  /\ \E r \in reqs : r.kind = "kpi"
  /\ kpiSummary # Null

\* Two endpoint strings with the same path and the same query parameters,
\* in whatever order.
SameRequest(e1, e2) == e1[1] = e2[1] /\ Range(e1[2]) = Range(e2[2])

\* C19: endpoints with the same path and the same set of query parameters
\* have the same cache key, and a GET with useCache = true for one of them
\* is answered from the unexpired entry stored for the other.
C19_KeyIgnoresParameterOrder ==
  [][/\ \A e1, e2 \in Endpoints :
          SameRequest(e1, e2) => GetCacheKey(e1) = GetCacheKey(e2)
     /\ \A e1, e2 \in Endpoints, method \in Methods :
          (/\ FetchAPICall(e2, method, TRUE)
           /\ IsRead(method)
           /\ SameRequest(e1, e2)
           /\ e1 \in DOMAIN localStorage
           /\ now <= localStorage[e1].expiresAt)
          => /\ calls'[Len(calls')].attempts = 0
             /\ calls'[Len(calls')].result = Returned(localStorage[e1].data)]_vars

\* A GET went to the network and stored its payload at time 0; the clock
\* has not moved, and the GET begun after it with the same parameters in
\* another order has gone to the network as well.
C19_ReorderedMisses ==
  \E c, d \in DOMAIN calls :
    /\ c < d
    /\ calls[c].endpoint # calls[d].endpoint
    /\ SameRequest(calls[c].endpoint, calls[d].endpoint)
    /\ CachedRead(calls[c]) /\ CachedRead(calls[d])
    /\ calls[c].result.status = "returned" /\ calls[c].attempts = 1
    /\ calls[d].attempts = 1
    /\ calls[c].endpoint \in DOMAIN localStorage
    /\ localStorage[calls[c].endpoint].timestamp = 0
    /\ now = 0

\* The text is a number within [-bound, bound].
Within(text, bound) ==
  /\ Trim(text) # ""
  /\ ~ParseFloat(text).nan
  /\ -bound <= ParseFloat(text).num
  /\ ParseFloat(text).num <= bound

\* C20: a search asked for with a latitude that is empty, not a number or
\* outside [-90, 90], or with such a longitude for [-180, 180], does not
\* reach findNearestFarm: the search result, the selection, the map centre
\* and the requests in flight are what they were.
C20_InvalidInputBlocked ==
  [][\A latInput \in LatTexts, lngInput \in LngTexts :
       (/\ LocationSearch(latInput, lngInput)
        /\ ~(Within(latInput, 90) /\ Within(lngInput, 180)))
       => /\ searchResult' = searchResult
          /\ selectedFarm' = selectedFarm
          /\ selectedCrop' = selectedCrop
          /\ filters' = filters
          /\ mapCenter' = mapCenter
          /\ reqs' = reqs]_vars

\* Two searches have been asked for with farms known, and the search result
\* is still the initial one: both were blocked.
C20_SearchesBlocked ==
  /\ events = 2
  /\ Len(farms) > 0
  /\ searchResult = NoSearch

\* The load of the kind is started in this step: its network call is made,
\* or its request is answered from the cache.
Starts(kind) ==
  \/ issued'[kind] > issued[kind]
  \/ \E i \in DOMAIN micro' :
       micro'[i].t = "settled" /\ micro'[i].kind = kind

\* C21: when the request of loadFarms, loadCrops or loadFieldBoundaries
\* fails the store's error is set, and a retry made while the error of a
\* load is shown starts that load again.
C21_RetryReissuesFailedLoad ==
  [][/\ \A r \in reqs :
          (r.kind \in {"farms", "crops", "fields"} /\ ResponseFails(r))
          => error' # NoErr
     /\ (Retry /\ error = ErrFarms) => Starts("farms")
     /\ (Retry /\ error = ErrCrops) => Starts("crops")
     /\ (Retry /\ error = ErrFields) => Starts("fields")]_vars

\* The farm list failed to load while a farm and a crop were selected; the
\* retry has been made, and no request for the farm list has followed.
C21_FarmsNotReloaded ==
  /\ farms = <<>>
  /\ selectedFarm # None /\ selectedCrop # None
  /\ error = NoErr
  /\ events = 2
  /\ issued["farms"] = 2
  /\ ~\E r \in reqs : r.kind = "farms"

\* A field-boundary load has not finished: its request is unanswered, or its
\* cached answer waits for the microtask checkpoint.
BoundaryLoadInFlight ==
  \/ \E r \in reqs : r.kind = "fields"
  \/ \E i \in DOMAIN micro : micro[i].kind = "fields"

\* C22: whenever no field-boundary load is in flight, fieldBoundaries is the
\* list of the selected (farm, crop) pair, and is empty when the selection
\* is partial, in whichever order overlapping loads were answered.
C22_BoundariesOfSelection ==
  (mounted /\ ~BoundaryLoadInFlight)
  => fieldBoundaries = IF Selected(selectedFarm, selectedCrop)
                         THEN FieldsOf(selectedFarm, selectedCrop)
                         ELSE <<>>

\* Every boundary load has been answered, and the list shown belongs to a
\* pair other than the selected one.
C22_ListOfAnotherPair ==
  /\ ~BoundaryLoadInFlight
  /\ Selected(selectedFarm, selectedCrop)
  /\ fieldBoundaries # <<>>
  /\ fieldBoundaries # FieldsOf(selectedFarm, selectedCrop)

\* A load of one of the kinds for the field is under way: its request is
\* unanswered, or its cached answer waits for the microtask checkpoint.
LoadPending(kinds, fieldId) ==
  \/ \E r \in reqs : r.kind \in kinds /\ r.a = fieldId
  \/ \E i \in DOMAIN micro : micro[i].kind \in kinds /\ micro[i].a = fieldId

\* The overlay stays on the layer from some point on, with the field among
\* the boundaries.
StaysOn(layer, fieldId) ==
  <>[](activeMapLayer = layer /\ fieldId \in Range(fieldBoundaries))

\* C23: once the overlay is ndvi (resp. stress) and stays so, with the
\* selection unchanged, every current field gets an entry or has a load
\* request issued for it; and when no request fails every current field
\* gets an entry.
C23_OverlayLoadsEveryField ==
  \A id \in FieldIds :
    /\ StaysOn("ndvi", id)
       => <>(id \in DOMAIN ndviGrids \/ LoadPending({"ndviT", "ndvi"}, id))
    /\ StaysOn("stress", id)
       => <>(id \in DOMAIN stressIndices \/ LoadPending({"stress"}, id))
    /\ (StaysOn("ndvi", id) /\ [](error = NoErr))
       => <>(id \in DOMAIN ndviGrids)
    /\ (StaysOn("stress", id) /\ [](error = NoErr))
       => <>(id \in DOMAIN stressIndices)

\* The NDVI overlay is on over the fields A and B, the effect has run and
\* nothing is pending: the load of A has failed, and no request for B was
\* ever made.
C23_SecondFieldNeverRequested ==
  /\ activeMapLayer = "ndvi" /\ mapLoaded /\ ~effectDue
  /\ fieldBoundaries = <<"A", "B">>
  /\ ~isLoadingNDVI /\ micro = <<>>
  /\ ndviGrids = EmptyMap
  /\ issued["ndviT"] = 1 /\ issued["ndvi"] = 0
  /\ ~\E r \in reqs : r.kind \in OverlayKinds

\* The current fields whose grid of the overlay has been loaded.
ResolvedFields(layer) ==
  {id \in Range(fieldBoundaries) :
     id \in DOMAIN (IF layer = "ndvi" THEN ndviGrids ELSE stressIndices)}

\* The map's effects have run on the state as it is.
EffectsRun == mapLoaded /\ ~effectDue /\ micro = <<>>

\* C24: while the ndvi (resp. stress) overlay is active the map draws the
\* grids of exactly the current fields whose data has been loaded: none when
\* no current field has data, the loaded ones when some have.
C24_RendersResolvedGrids ==
  \A layer \in {"ndvi", "stress"} :
    (EffectsRun /\ activeMapLayer = layer)
    => HeatmapFields(St, layer) = ResolvedFields(layer)

\* The NDVI overlay is active, the grid of field A has been loaded and that
\* of B has not, the effects have run, and the map draws no grid.
C24_LoadedGridNotDrawn ==
  /\ EffectsRun /\ activeMapLayer = "ndvi"
  /\ ResolvedFields("ndvi") = {"A"}
  /\ HeatmapFields(St, "ndvi") = {}
  /\ boundariesLayer.visibility = "none"

\* What the map displays: whether the boundaries are visible, and the
\* fields of the NDVI and of the stress heatmap.
Displayed(s) ==
  [boundaries |-> s.boundariesLayer.visibility = "visible",
   ndvi |-> HeatmapFields(s, "ndvi"),
   stress |-> HeatmapFields(s, "stress")]

\* What a map that has shown nothing before displays once its effects have
\* run on the present activeMapLayer, fieldBoundaries, ndviGrids and
\* stressIndices.
DisplayedAfresh ==
  Displayed(LayerEffect(BoundariesEffect(
              [St EXCEPT !.boundariesLayer = NoLayer])))

\* C25: once the map's effects have run and nothing is pending, what the
\* map displays depends on activeMapLayer, fieldBoundaries, ndviGrids and
\* stressIndices alone: it is what a map with no history displays for them.
C25_DisplayDependsOnStateOnly ==
  EffectsRun => Displayed(St) = DisplayedAfresh

\* The boundary list is empty and the boundaries layer is active, as before
\* the first boundaries arrived, yet the map shows the boundaries of an
\* earlier selection.
C25_EarlierBoundariesShown ==
  /\ EffectsRun /\ activeMapLayer = "boundaries"
  /\ fieldBoundaries = <<>>
  /\ ndviGrids = EmptyMap /\ stressIndices = EmptyMap
  /\ boundariesLayer = [features |-> <<"A", "B">>, visibility |-> "visible"]
  /\ ~\E r \in reqs : r.kind = "fields"

\* The loads of the three per-field datasets, as a call for the field
\* queues them.
FieldLoads(fieldId) ==
  <<Cont("dataImport", "soil", fieldId, None, NoEnv),
    Cont("dataImport", "yield", fieldId, None, NoEnv),
    Cont("dataImport", "carbon", fieldId, None, NoEnv)>>

\* C26: a successful boundary load with a non-empty list schedules the
\* soil-moisture, yield-prediction and carbon-metrics loads of the first
\* boundary of the list; the scheduled callback starts these three loads
\* and no other, no per-field load is ever started for another field, and
\* a failed per-field request leaves fieldBoundaries as it was.
C26_FirstFieldLoads ==
  [][/\ \A r \in reqs :
          (r.kind = "fields" /\ ResponseSuccess(r) /\ FieldsOf(r.a, r.b) # <<>>)
          => /\ fieldBoundaries' = FieldsOf(r.a, r.b)
             /\ timers' = Append(timers, [t |-> "fieldData",
                                          arg |-> FieldsOf(r.a, r.b)[1]])
     /\ \A i \in DOMAIN timers :
          (timers[i].t = "fieldData" /\ TimerFires(i))
          => micro' = FieldLoads(timers[i].arg)
     /\ \A r \in reqs' :
          r.kind \in DataKinds
          => \E f \in FarmIds, c \in CropIds :
               FieldsOf(f, c) # <<>> /\ r.a = FieldsOf(f, c)[1]
     /\ \A r \in reqs :
          (r.kind \in DataKinds /\ ResponseFails(r))
          => fieldBoundaries' = fieldBoundaries]_vars

\* The boundaries A and B are loaded, the three loads of A have been sent,
\* one of them has failed, and nothing was sent for B.
C26_FirstFieldLoadFailed ==
  /\ fieldBoundaries = <<"A", "B">>
  /\ issued["soil"] = 1 /\ issued["yield"] = 1 /\ issued["carbon"] = 1
  /\ \E r \in reqs : r.kind = "soil" /\ r.a = "A"
  /\ \E r \in reqs : r.kind = "carbon" /\ r.a = "A"
  /\ ~\E r \in reqs : r.kind = "yield"
  /\ "A" \notin DOMAIN yieldPrediction
  /\ timers = <<>>

\* The only load of the farm list (resp. crop list) so far is that of
\* initializeDashboard, and it has been answered with a non-empty list.
FarmsArrived ==
  issued["farms"] = 1 /\ farms # <<>> /\ ~\E r \in reqs : r.kind = "farms"
CropsArrived ==
  issued["crops"] = 1 /\ crops # <<>> /\ ~\E r \in reqs : r.kind = "crops"
CropsAwaited == issued["crops"] = 1 /\ \E r \in reqs : r.kind = "crops"
FarmsAwaited == issued["farms"] = 1 /\ \E r \in reqs : r.kind = "farms"

\* C27: after initializeDashboard and before any user input, the response
\* that arrives first selects its farm (resp. crop) and triggers no load;
\* once both have arrived, in either order, a farm and a crop are selected
\* and exactly one field-boundary load and one KPI load have been made.
C27_OneLoadEitherOrder ==
  (events = 0 /\ micro = <<>>)
  => /\ (FarmsArrived /\ CropsAwaited)
        => /\ selectedFarm # None /\ selectedCrop = None
           /\ issued["fields"] = 0 /\ issued["kpi"] = 0
     /\ (CropsArrived /\ FarmsAwaited)
        => /\ selectedFarm = None /\ selectedCrop # None
           /\ issued["fields"] = 0 /\ issued["kpi"] = 0
     /\ (FarmsArrived /\ CropsArrived)
        => /\ selectedFarm # None /\ selectedCrop # None
           /\ issued["fields"] = 1 /\ issued["kpi"] = 1

\* Both lists have arrived, the farm list in the order that puts farm-1
\* second; farm-1 and the first crop are selected and the boundaries of the
\* pair have been loaded by the one request made.
C27_InitialSelectionLoaded ==
  /\ events = 0 /\ micro = <<>>
  /\ FarmsArrived /\ CropsArrived
  /\ farms = <<"f2", "f1">>
  /\ selectedFarm = "f1" /\ selectedCrop = "c1"
  /\ issued["fields"] = 1 /\ issued["kpi"] = 1
  /\ fieldBoundaries = <<"A", "B">>

\* The latest read of the cache was made by the load, after the response of
\* the load's request was stored and before it expired, and the stored item
\* is still there.
ReadAfterStore(l) ==
  /\ got.at >= 0
  /\ got.endpoint = CacheKeyOf(l)
  /\ EndpointOf(l) \in DOMAIN localStorage
  /\ localStorage[EndpointOf(l)].timestamp < got.at
  /\ got.at <= localStorage[EndpointOf(l)].expiresAt

\* C28: for every per-field load and the KPI load, with any arguments (no
\* location, no date range, a latitude of 0), the key the store reads is
\* the endpoint the load's response is stored under, so the read of a load
\* finds the stored response of an identical load.
C28_ReadKeyIsStoredKey ==
  \A l \in LoadCalls :
    /\ CacheKeyOf(l) = EndpointOf(l)
    /\ ReadAfterStore(l) => got.value # Miss

\* The response of loadSoilMoisture(fieldId) without location or date range
\* is in the cache, and the load's read that followed found nothing.
C28_SoilReadMisses ==
  LET l == [kind |-> "soil", dateRange |-> Undefined, location |-> Undefined]
  IN ReadAfterStore(l) /\ got.value = Miss

\* The endpoint has an entry in the cache that has not expired.
Cached(kind, a, b) == Endpoint(kind, a, b) \in DOMAIN cache

\* The entry of the endpoint survives the step: it neither expires nor is
\* cleared.
StaysCached(kind, a, b) ==
  Cached(kind, a, b) /\ Endpoint(kind, a, b) \in DOMAIN cache'

\* A network call for the endpoint is made in the step.
NetworkCall(kind, a, b) ==
  \E r \in reqs' \ reqs : r.kind = kind /\ r.a = a /\ r.b = b

Answered(kind, a, b) ==
  \E r \in reqs : r.kind = kind /\ r.a = a /\ r.b = b /\ ResponseSuccess(r)

ScheduledFor(timer) == CHOOSE f \in FarmIds : DefaultCropId(f) = timer.arg

\* C30: a deferred default-crop assignment scheduled when farm F was
\* selected changes selectedCrop only if F is the selected farm when it
\* runs.
C30_DeferredCropOnlyForItsFarm ==
  [][\A i \in DOMAIN timers :
       (/\ timers[i].t = "crop"
        /\ TimerFires(i)
        /\ selectedFarm # ScheduledFor(timers[i]))
       => selectedCrop' = selectedCrop]_vars

\* The initial selection (f1, c1) was made and its boundaries are still
\* being loaded; farm f1 was picked in the dropdown, then farm f2, and the
\* assignment deferred for f1 has run: f2 is selected with f1's default
\* crop.
C30_CropOfPreviousFarm ==
  /\ selectedFarm = "f2" /\ selectedCrop = DefaultCropId("f1")
  /\ events = 2 /\ timers = <<>>
  /\ \E r \in reqs : r.kind = "fields" /\ r.n = 1 /\ r.sel = <<"f1", "c1">>

====
